---- MODULE Spec2Model ----
(***************************************************************************)
(* MiniMart: the peer-store aggregation engine (js/storeAggregator.js).    *)
(*                                                                         *)
(* JavaScript strings are modelled as sequences of UTF-16 code units, so   *)
(* that trim(), the base-URL regular expression, template literals and the *)
(* character hash of generateUid are computed as the code computes them.   *)
(* Date.now() is the variable now, in milliseconds from an arbitrary       *)
(* epoch; it is constant within one synchronous JavaScript task and may    *)
(* advance between tasks.                                                  *)
(***************************************************************************)
EXTENDS Integers, Sequences, FiniteSets, TLC

(***************************************************************************)
(* Bounds of the model.                                                    *)
(***************************************************************************)
\* Longest profile list handed to fetchAllStores.
MaxProfiles == 2
\* Date.now() at construction.
Now0 == 1000
\* The clock advances by single milliseconds (at most MaxShortTicks of
\* them) and by cacheDuration - 1 milliseconds (at most MaxLongTicks).
MaxShortTicks == 1
MaxLongTicks == 1
\* Longest chain of coins the node reports.
MaxCoins == 2
\* Messages handed to the application's handler.
MaxMessages == 2
\* Local installs counted on one listing entry.
MaxDownloads == 2
MaxScan == 3
MaxLimit == 2
MaxPublishes == 2
MaxBroadcasts == 1
MaxBalance == 1
MaxInbound == 1

(***************************************************************************)
(* JavaScript values.                                                      *)
(***************************************************************************)
\* The values undefined and null where a string is expected (no code unit
\* is negative).
undefined == <<-1>>
null == <<-2>>
\* The value undefined where a number is expected.
undefinedNum == -1

\* ToBoolean of a string, undefined or null: undefined, null and "" are falsy.
Truthy(s) == s \notin {undefined, null, <<>>}

\* `${v}` for a string-or-undefined value.
Str_undefined == <<117, 110, 100, 101, 102, 105, 110, 101, 100>>
Template(s) == IF s = undefined THEN Str_undefined ELSE s

\* As OrElse, with ?? for ||: only undefined and null give way to b.
OrElseNullish(a, b) == IF a \in {undefined, null} THEN b ELSE a

\* a || b on string-or-undefined values.
OrElse(a, b) == IF Truthy(a) THEN a ELSE b

\* White space removed by String.prototype.trim (the ASCII part).
IsSpace(c) == c \in {9, 10, 11, 12, 13, 32}

RECURSIVE TrimStart(_)
TrimStart(s) ==
  IF s # <<>> /\ IsSpace(Head(s)) THEN TrimStart(Tail(s)) ELSE s

RECURSIVE TrimEnd(_)
TrimEnd(s) ==
  IF s # <<>> /\ IsSpace(s[Len(s)]) THEN TrimEnd(SubSeq(s, 1, Len(s) - 1)) ELSE s

trim(s) == TrimEnd(TrimStart(s))

\* Number.prototype.toString(10) of a non-negative integer.
RECURSIVE Decimal(_)
Decimal(n) ==
  IF n < 10 THEN <<48 + n>> ELSE Append(Decimal(n \div 10), 48 + (n % 10))

(***************************************************************************)
(* generateUid: a 32-bit string hash of `${dappName}_${address}_${now}`.   *)
(* The running hash is kept as two 16-bit halves [hi, lo] of its two's     *)
(* complement representation, so that h*31 + c is reduced modulo 2^32      *)
(* exactly as ((hash << 5) - hash) + char; hash & hash does.               *)
(***************************************************************************)
Half == 65536

HashStep(h, c) ==
  LET lo == h.lo * 31 + c
      hi == h.hi * 31 + (lo \div Half)
  IN  [hi |-> hi % Half, lo |-> lo % Half]

\* The hash after the first n code units of s.
RECURSIVE HashUpTo(_, _)
HashUpTo(s, n) ==
  IF n = 0 THEN [hi |-> 0, lo |-> 0] ELSE HashStep(HashUpTo(s, n - 1), s[n])

\* Math.abs of the signed 32-bit value, again as two halves (2^31 for -2^31).
AbsHash(h) ==
  IF h.hi < Half \div 2 THEN h
  ELSE IF h.lo = 0 THEN [hi |-> (Half - h.hi) % Half, lo |-> 0]
       ELSE [hi |-> Half - 1 - h.hi, lo |-> Half - h.lo]

\* One upper-case hexadecimal digit.
HexDigit(d) == IF d < 10 THEN 48 + d ELSE 55 + d

RECURSIVE HexOf(_)
HexOf(n) ==
  IF n < 16 THEN <<HexDigit(n)>> ELSE Append(HexOf(n \div 16), HexDigit(n % 16))

RECURSIVE PadHex(_)
PadHex(s) == IF Len(s) < 4 THEN PadHex(<<48>> \o s) ELSE s

\* Number.prototype.toString(16).toUpperCase() of hi * 2^16 + lo.
HexString(h) ==
  IF h.hi = 0 THEN HexOf(h.lo) ELSE HexOf(h.hi) \o PadHex(HexOf(h.lo))

Str_0x == <<48, 120>>
Underscore == 95

generateUid(dappName, address, t) ==
  LET combined ==
        dappName \o <<Underscore>> \o address \o <<Underscore>> \o Decimal(t)
  IN  Str_0x \o HexString(AbsHash(HashUpTo(combined, Len(combined))))

(***************************************************************************)
(* String literals of the program.                                         *)
(***************************************************************************)
Str_name == <<110, 97, 109, 101>>
Str_description == <<100, 101, 115, 99, 114, 105, 112, 116, 105, 111, 110>>
Str_icon == <<105, 99, 111, 110>>
Str_version == <<118, 101, 114, 115, 105, 111, 110>>
Str_NoDescription == <<78, 111, 32, 100, 101, 115, 99, 114, 105, 112, 116, 105, 111, 110, 32, 112, 114, 111, 118, 105, 100, 101, 100>>
Str_DefaultVersion == <<49, 46, 48, 46, 48>>
Str_Utility == <<85, 116, 105, 108, 105, 116, 121>>
Str_sStore == <<39, 115, 32, 83, 116, 111, 114, 101>>
Slash == 47

(***************************************************************************)
(* Inputs: the profiles the caller may pass and the catalog documents the  *)
(* peers may serve.                                                        *)
(***************************************************************************)
\* "http://host/store/dapps.json" and "http://peer/dapps.json"
Url1 == <<104, 116, 116, 112, 58, 47, 47, 104, 111, 115, 116, 47, 115, 116, 111, 114, 101, 47, 100, 97, 112, 112, 115, 46, 106, 115, 111, 110>>
Url2 == <<104, 116, 116, 112, 58, 47, 47, 112, 101, 101, 114, 47, 100, 97, 112, 112, 115, 46, 106, 115, 111, 110>>
URLs == {Url1, Url2}

Key_Chess == <<67, 104, 101, 115, 115>>
Key_Aa == <<65, 97>>
Key_BB == <<66, 66>>
Key_x == <<120>>
Key_y == <<121>>

Profile(address, username, store_url) ==
  [address |-> address, username |-> username, store_url |-> store_url,
   maxima_address |-> undefined, verified |-> FALSE,
   featured_dapp_uid |-> Key_Chess]

\* alice and carol declare the same catalog URL; dave's URL is white space
\* only and erin's is empty.
Alice == Profile(<<48, 120, 65, 65>>, <<97, 108, 105, 99, 101>>, Url1)
Bob == Profile(<<48, 120, 66, 66>>, <<98, 111, 98>>, Url2)
Carol == Profile(<<48, 120, 67, 67>>, <<99, 97, 114, 111, 108>>, Url1)
Dave == Profile(<<48, 120, 68, 68>>, <<100, 97, 118, 101>>, <<32, 32>>)
Erin == Profile(<<48, 120, 69, 69>>, <<101, 114, 105, 110>>, <<>>)
Profiles == {Alice, Bob, Carol, Dave, Erin}

RECURSIVE SeqsUpTo(_, _)
SeqsUpTo(S, n) ==
  IF n = 0 THEN {<<>>}
  ELSE LET shorter == SeqsUpTo(S, n - 1)
       IN  shorter \cup {Append(q, x) : q \in shorter, x \in S}

ProfileLists == SeqsUpTo(Profiles, MaxProfiles)

\* A dapp-description object of a catalog; an omitted field is undefined.
Dapp(name, description, version, category, miniDapp, file, icon, downloads) ==
  [kind |-> "object", name |-> name, description |-> description,
   version |-> version, category |-> category, miniDapp |-> miniDapp,
   file |-> file, icon |-> icon, downloads |-> downloads]
JsNull == [kind |-> "null"]
JsString(s) == [kind |-> "string", str |-> s]

\* { "name": "Store", "x": null, "y": "str",
\*   "Chess": { name: "Chess", description: "A game", version: "2.0.0",
\*              category: "Games", miniDapp: "game.mds.zip",
\*              icon: "icon.png", downloads: 5 } }
DocGame ==
  [kind |-> "object", entries |-> <<
     [key |-> Str_name, val |-> JsString(<<83, 116, 111, 114, 101>>)],
     [key |-> Key_x, val |-> JsNull],
     [key |-> Key_y, val |-> JsString(<<115, 116, 114>>)],
     [key |-> Key_Chess,
      val |-> Dapp(<<67, 104, 101, 115, 115>>, <<65, 32, 103, 97, 109, 101>>, <<50, 46, 48, 46, 48>>, <<71, 97, 109, 101, 115>>,
                   <<103, 97, 109, 101, 46, 109, 100, 115, 46, 122, 105, 112>>, undefined, <<105, 99, 111, 110, 46, 112, 110, 103>>, 5)] >>]

\* { "Chess": { miniDapp: "game.mds.zip", downloads: 2 },
\*   "Aa": { file: "tool.zip", version: "" }, "BB": { downloads: 1 } }
DocPair ==
  [kind |-> "object", entries |-> <<
     [key |-> Key_Chess,
      val |-> Dapp(undefined, undefined, undefined, undefined,
                   <<103, 97, 109, 101, 46, 109, 100, 115, 46, 122, 105, 112>>, undefined, undefined, 2)],
     [key |-> Key_Aa,
      val |-> Dapp(undefined, undefined, <<>>, undefined,
                   undefined, <<116, 111, 111, 108, 46, 122, 105, 112>>, undefined, undefinedNum)],
     [key |-> Key_BB,
      val |-> Dapp(undefined, undefined, undefined, undefined,
                   undefined, undefined, undefined, 1)] >>]

\* The JSON text null: response.json() succeeds and yields null.
DocNull == [kind |-> "null", entries |-> <<>>]

Docs == {DocGame, DocPair, DocNull}

JsNumber(n) == [kind |-> "number", num |-> n]

\* { "icon": "store.png", "description": { miniDapp: "d.zip" }, "x": 7,
\*   "Chess": { name: "", version: "3.1", category: "", miniDapp: "",
\*              file: "alt.zip", icon: "", downloads: 0 },
\*   "Aa": { name: "Tool", miniDapp: "a.zip", file: "b.zip", icon: "a.png" } }
DocEdge ==
  [kind |-> "object", entries |-> <<
     [key |-> Str_icon, val |-> JsString(<<115, 116, 111, 114, 101, 46, 112, 110, 103>>)],
     [key |-> Str_description,
      val |-> Dapp(undefined, undefined, undefined, undefined,
                   <<100, 46, 122, 105, 112>>, undefined, undefined, undefinedNum)],
     [key |-> Key_x, val |-> JsNumber(7)],
     [key |-> Key_Chess,
      val |-> Dapp(<<>>, undefined, <<51, 46, 49>>, <<>>,
                   <<>>, <<97, 108, 116, 46, 122, 105, 112>>, <<>>, 0)],
     [key |-> Key_Aa,
      val |-> Dapp(<<84, 111, 111, 108>>, undefined, undefined, undefined,
                   <<97, 46, 122, 105, 112>>, <<98, 46, 122, 105, 112>>, <<97, 46, 112, 110, 103>>, undefinedNum)] >>]

\* The documents handed to parseStoreData directly.
StoreDatas == Docs \cup {DocEdge}

\* "dapps.json": a store URL without any "/".
UrlBare == <<100, 97, 112, 112, 115, 46, 106, 115, 111, 110>>
StoreUrls == URLs \cup {UrlBare}

(***************************************************************************)
(* parseStoreData.                                                         *)
(***************************************************************************)
\* storeUrl.replace(/\/[^\/]*$/, ''): the last "/" and what follows it are
\* removed; a string without "/" is left as it is.
\* The position of the last "/" among the first n code units of s, or 0.
RECURSIVE LastSlash(_, _)
LastSlash(s, n) ==
  IF n = 0 THEN 0
  ELSE IF s[n] = Slash THEN n
  ELSE LastSlash(s, n - 1)

\* As BaseUrl, with the pattern /\/.*$/: cut at the first "/".
BaseUrlFromFirstSlash(storeUrl) ==
  IF \E n \in DOMAIN storeUrl : storeUrl[n] = Slash
  THEN LET at == CHOOSE n \in DOMAIN storeUrl :
                   /\ storeUrl[n] = Slash
                   /\ \A m \in 1..(n - 1) : storeUrl[m] # Slash
       IN  SubSeq(storeUrl, 1, at - 1)
  ELSE storeUrl

BaseUrl(storeUrl) ==
  LET at == LastSlash(storeUrl, Len(storeUrl))
  IN  IF at = 0 THEN storeUrl ELSE SubSeq(storeUrl, 1, at - 1)

IsReservedKey(key) ==
  key \in {Str_name, Str_description, Str_icon, Str_version}

\* dappData.<field>: a property read on null throws a TypeError, on a
\* string it yields undefined (none of the fields read is a String property).
ReadThrows(dappData) == dappData.kind = "null"
Field(dappData, f) == IF dappData.kind = "object" THEN dappData[f] ELSE undefined
NumField(dappData, f) ==
  IF dappData.kind = "object" THEN dappData[f] ELSE undefinedNum

\* The dapp record built for one catalog key at time t.
MakeDapp(key, dappData, storeUrl, profile, t) ==
  LET baseUrl == BaseUrl(storeUrl)
  IN
  [uid |-> generateUid(key, profile.address, t),
   name |-> OrElse(Field(dappData, "name"), key),
   description |-> OrElse(Field(dappData, "description"), Str_NoDescription),
   version |-> OrElse(Field(dappData, "version"), Str_DefaultVersion),
   category |-> OrElse(Field(dappData, "category"), Str_Utility),
   file |-> baseUrl \o <<Slash>> \o
            Template(OrElse(Field(dappData, "miniDapp"), Field(dappData, "file"))),
   icon |-> IF Truthy(Field(dappData, "icon"))
            THEN baseUrl \o <<Slash>> \o Field(dappData, "icon")
            ELSE null,
   developer |-> profile.username,
   developer_address |-> profile.address,
   maxima_address |-> OrElse(profile.maxima_address, null),
   store_url |-> storeUrl,
   store_name |-> profile.username \o Str_sStore,
   downloads |-> IF NumField(dappData, "downloads") \in {undefinedNum, 0}
                 THEN 0 ELSE NumField(dappData, "downloads"),
   timestamp |-> t,
   verified |-> profile.verified,
   featured |-> profile.featured_dapp_uid = key]

\* The loop over Object.entries(storeData): reserved keys are skipped, a
\* key whose record construction throws is skipped by the inner catch.
RECURSIVE ParseEntries(_, _, _, _)
ParseEntries(entries, storeUrl, profile, t) ==
  IF entries = <<>> THEN <<>>
  ELSE LET e == Head(entries)
           rest == ParseEntries(Tail(entries), storeUrl, profile, t)
       IN  IF IsReservedKey(e.key) \/ ReadThrows(e.val) THEN rest
           ELSE <<MakeDapp(e.key, e.val, storeUrl, profile, t)>> \o rest

\* Object.entries(null) throws a TypeError before the loop starts.
ParseThrows(storeData) == storeData.kind = "null"

parseStoreData(storeData, storeUrl, profile, t) ==
  ParseEntries(storeData.entries, storeUrl, profile, t)

(***************************************************************************)
(* The aggregator's state and one aggregation run.                         *)
(***************************************************************************)
VARIABLES
  now,            \* Date.now()
  cachedStores,   \* this.cachedStores: Map from store URL to parsed dapps
  lastFetchTime,  \* this.lastFetchTime: Map from store URL to a time
  pc,             \* fetchAllStores: "idle", "awaiting" (at allSettled), "done"
  profiles,       \* the argument of the current fetchAllStores call
  pipes,          \* storePromises: one fetchStore call per profile with a store
  allDapps,       \* the array fetchAllStores returns
  successCount,
  failCount

\* The application (js/app.js) and the chain it reads (js/marketplace.js).
VARIABLES
  parsed,         \* the last direct call of parseStoreData: arguments and return
  coins,          \* the coins `coins relevant:false` returns, in chain order
  appPc,          \* MiniMartApp.init: the statement it has reached
  appDapps,       \* this.dapps
  appProfiles,    \* this.profiles: object from address to profile
  message,        \* the last message handed to handleMaximaMessage
  handlerStatus,  \* how the promise of that call settled
  dispatched      \* the number of messages handed over so far

aggregatorVars == <<cachedStores, lastFetchTime, pc, profiles, pipes, allDapps,
                    successCount, failCount>>
appVars == <<coins, appPc, appDapps, appProfiles, message, handlerStatus,
             dispatched>>

VARIABLES
  queried,        \* the last direct call of a chain query: arguments and return
  apis,           \* isReady of blockchainAPI, and how minimaAPI runs commands
  balance,        \* the node's spendable balance, in hundredths of a Minima
  commands,       \* the commands handed to _mdsCommand, in the order given
  publish,        \* MiniMartApp.publishDapp: the statement it has reached
  listener,       \* the application the Maxima callback is subscribed to
  inbound,        \* the last call of the Maxima callback: its text and outcome
  download,       \* the last call of MiniMartApp.downloadDapp and its outcome
  boot            \* MinimaAPI.init: the statement it has reached, its polls

ledgerVars == <<queried, apis, balance, commands, publish, listener, inbound,
                download, boot>>

vars == <<now, cachedStores, lastFetchTime, pc, profiles, pipes, allDapps,
          successCount, failCount, parsed, appVars, ledgerVars>>

\* this.cacheDuration = 5 * 60 * 1000
cacheDuration == 5 * 60 * 1000

\* Map.set
MapSet(m, k, v) == [x \in DOMAIN m \cup {k} |-> IF x = k THEN v ELSE m[x]]
\* Map.delete
MapDelete(m, k) == [x \in DOMAIN m \ {k} |-> m[x]]
\* new Map() and Map.clear
EmptyMap == [x \in {} |-> 0]

\* profiles.filter(p => p.store_url && p.store_url.trim())
HasStore(p) == Truthy(p.store_url) /\ Truthy(trim(p.store_url))
profilesWithStores(ps) == SelectSeq(ps, HasStore)

\* What one network request can come to: the 10-second abort, a non-2xx
\* status, a body that is not JSON, or a parsed JSON document.
FailureKinds == {"timeout", "httpStatus", "malformed"}
Outcomes ==
  [kind : FailureKinds, doc : {DocNull}] \cup [kind : {"ok"}, doc : Docs]

\* As CacheIsFresh, with <= for <.
CacheIsFreshInclusive(storeUrl) ==
  /\ storeUrl \in DOMAIN lastFetchTime
  /\ lastFetchTime[storeUrl] # 0
  /\ now - lastFetchTime[storeUrl] <= cacheDuration
  /\ storeUrl \in DOMAIN cachedStores

\* The cache check of fetchStore (lines 80-88): the record is served when one
\* exists and the recorded fetch time is truthy and less than cacheDuration old.
CacheIsFresh(storeUrl) ==
  /\ storeUrl \in DOMAIN lastFetchTime
  /\ lastFetchTime[storeUrl] # 0
  /\ now - lastFetchTime[storeUrl] < cacheDuration
  /\ storeUrl \in DOMAIN cachedStores

\* const lastFetch = this.lastFetchTime.get(storeUrl) (line 81).
LastFetch(storeUrl) ==
  IF storeUrl \in DOMAIN lastFetchTime THEN lastFetchTime[storeUrl] ELSE undefinedNum

\* fetchStore up to its first await: either the cached array is returned, or
\* the request is issued and the call is suspended. started is the constant
\* `now` of the call, lastFetch its constant `lastFetch`, requested tells whether fetch() was called, via which
\* return statement produced the value ("fresh": line 86, "live": line 120,
\* "stale": line 130) and response whether the try block ran to its end
\* ("ok") or the catch block was entered ("error").
CallFetchStore(profile) ==
  IF CacheIsFresh(profile.store_url)
  THEN [profile |-> profile, started |-> now,
        lastFetch |-> LastFetch(profile.store_url), requested |-> FALSE,
        status |-> "fulfilled", value |-> cachedStores[profile.store_url],
        via |-> "fresh", response |-> "none"]
  ELSE [profile |-> profile, started |-> now,
        lastFetch |-> LastFetch(profile.store_url), requested |-> TRUE,
        status |-> "pending", value |-> <<>>,
        via |-> "none", response |-> "none"]

\* The live fetch fails: any of the failure kinds, or a document on which
\* parseStoreData throws (the outer catch of fetchStore takes them all).
LiveFails(outcome) == outcome.kind # "ok" \/ ParseThrows(outcome.doc)
ResponseOf(outcome) == IF LiveFails(outcome) THEN "error" ELSE "ok"

\* fetchStore from the response on (lines 101-134), for a suspended call.
SettleSuccess(p, outcome) ==
  LET dapps == parseStoreData(outcome.doc, p.profile.store_url, p.profile, now)
  IN  [p EXCEPT !.status = "fulfilled", !.value = dapps, !.via = "live",
                 !.response = ResponseOf(outcome)]

\* As SettleFailure, without the fallback.
SettleFailureNoFallback(p, outcome) ==
  [p EXCEPT !.status = "rejected", !.response = ResponseOf(outcome)]

\* As SettleFailure, with the fallback only for a record that is still fresh.
SettleFailureFreshOnly(p, outcome) ==
  IF /\ p.profile.store_url \in DOMAIN cachedStores
     /\ now - lastFetchTime[p.profile.store_url] < cacheDuration
  THEN [p EXCEPT !.status = "fulfilled",
                 !.value = cachedStores[p.profile.store_url], !.via = "stale",
                 !.response = ResponseOf(outcome)]
  ELSE [p EXCEPT !.status = "rejected", !.response = ResponseOf(outcome)]

SettleFailure(p, outcome) ==
  IF p.profile.store_url \in DOMAIN cachedStores
  THEN [p EXCEPT !.status = "fulfilled",
                 !.value = cachedStores[p.profile.store_url], !.via = "stale",
                 !.response = ResponseOf(outcome)]
  ELSE [p EXCEPT !.status = "rejected", !.response = ResponseOf(outcome)]

\* As CacheAfterFailure, with the record of the failed URL dropped.
CacheDroppedAfterFailure(storeUrl) == MapDelete(cachedStores, storeUrl)

\* The cache after a failed live fetch (the catch block writes nothing).
CacheAfterFailure(storeUrl) == cachedStores
TimesAfterFailure(storeUrl) == lastFetchTime

\* As Flatten, with Promise.all for Promise.allSettled: one rejection
\* and nothing is collected.
RECURSIVE FlattenAll(_)
FlattenAll(ps) ==
  IF ps = <<>> THEN <<>>
  ELSE Head(ps).value \o FlattenAll(Tail(ps))
FlattenUnlessRejected(ps) ==
  IF \E i \in DOMAIN ps : ps[i].status = "rejected" THEN <<>> ELSE FlattenAll(ps)

\* As Flatten, with the entries of a source put before those of the
\* sources ahead of it.
RECURSIVE FlattenLastFirst(_)
FlattenLastFirst(ps) ==
  IF ps = <<>> THEN <<>>
  ELSE FlattenLastFirst(Tail(ps))
       \o (IF Head(ps).status = "fulfilled" THEN Head(ps).value ELSE <<>>)

\* The forEach over the settled results (lines 46-56).
RECURSIVE Flatten(_)
Flatten(ps) ==
  IF ps = <<>> THEN <<>>
  ELSE (IF Head(ps).status = "fulfilled" THEN Head(ps).value ELSE <<>>)
       \o Flatten(Tail(ps))

CountStatus(ps, st) == Cardinality({i \in DOMAIN ps : ps[i].status = st})

\* No direct call of parseStoreData has been made.
NoCall == [called |-> FALSE]

\* new MiniMartApp() (app.js lines 9-15); no message has been received.
AppConstructed ==
  /\ appPc = "constructed"
  /\ appDapps = <<>>
  /\ appProfiles = EmptyMap
  /\ message = [kind |-> "none"]
  /\ handlerStatus = "none"
  /\ dispatched = 0

\* publishDapp has not been called: no toast, no registerDapp call, no send.
NoPublish ==
  [pc |-> "idle", run |-> 0, toast |-> "none", registration |-> "none",
   reason |-> "none", broadcast |-> "none", registerCalls |-> 0, sends |-> 0]

\* downloadDapp has not been called.
NoDownload == [called |-> FALSE]

\* MinimaAPI as constructed: init has not been called, no command given.
\* environment is isMinimaEnvironment; mds is what `typeof MDS` and
\* `typeof MDS.init` find: no MDS, an MDS without init, or a usable one.
Constructed(environment, mds) ==
  [pc |-> "new", attempts |-> 0, environment |-> environment, mds |-> mds,
   route |-> "none", cmds |-> 0]

\* MinimaAPI in the state a finished init leaves for each way of running
\* commands: development mode outside the Minima environment, and a node
\* inside it, ready or, after MDS_SHUTDOWN, not ready.
Booted(mode) ==
  IF mode = "development"
  THEN [Constructed(FALSE, "undefined") EXCEPT !.pc = "resolved"]
  ELSE [Constructed(TRUE, "ready") EXCEPT !.pc = "resolved"]

\* Nothing has been published, queried or sent; both APIs are ready and the
\* node is a real one.
LedgerIdle ==
  /\ queried = NoCall
  /\ apis = [blockchainAPI |-> TRUE, minimaAPI |-> "mds"]
  /\ balance = 0
  /\ commands = <<>>
  /\ publish = NoPublish
  /\ listener = "none"
  /\ inbound = [kind |-> "none", calls |-> 0]
  /\ download = NoDownload
  /\ boot = Booted("mds")

Init ==
  /\ now = Now0
  /\ cachedStores = EmptyMap
  /\ lastFetchTime = EmptyMap
  /\ pc = "idle"
  /\ profiles = <<>>
  /\ pipes = <<>>
  /\ allDapps = <<>>
  /\ successCount = 0
  /\ failCount = 0
  /\ parsed = NoCall
  /\ AppConstructed
  /\ coins = <<>>
  /\ LedgerIdle

\* fetchAllStores is called: the profiles are filtered and every fetchStore
\* call runs to its first await, in profile order, in the same task.
Start ==
  /\ pc = "idle"
  /\ \E ps \in ProfileLists :
       LET stores == profilesWithStores(ps)
       IN  /\ profiles' = ps
           /\ pipes' = [i \in DOMAIN stores |-> CallFetchStore(stores[i])]
           /\ pc' = IF stores = <<>> THEN "done" ELSE "awaiting"
  /\ allDapps' = <<>>
  /\ successCount' = 0
  /\ failCount' = 0
  /\ UNCHANGED <<now, cachedStores, lastFetchTime>>
  /\ UNCHANGED <<parsed, appVars, ledgerVars>>

\* The request of pipeline i comes to an end and fetchStore runs to its
\* return or throw.
Respond ==
  /\ pc = "awaiting"
  /\ \E i \in DOMAIN pipes, outcome \in Outcomes :
       LET p == pipes[i]
           storeUrl == p.profile.store_url
       IN  /\ p.status = "pending"
           /\ IF LiveFails(outcome)
              THEN /\ pipes' = [pipes EXCEPT ![i] = SettleFailure(p, outcome)]
                   /\ cachedStores' = CacheAfterFailure(storeUrl)
                   /\ lastFetchTime' = TimesAfterFailure(storeUrl)
              ELSE /\ pipes' = [pipes EXCEPT ![i] = SettleSuccess(p, outcome)]
                   /\ cachedStores' =
                        MapSet(cachedStores, storeUrl, SettleSuccess(p, outcome).value)
                   /\ lastFetchTime' = MapSet(lastFetchTime, storeUrl, p.started)
  /\ UNCHANGED <<now, pc, profiles, allDapps, successCount, failCount>>
  /\ UNCHANGED <<parsed, appVars, ledgerVars>>

\* As AllSettled, with Promise.all: the first rejection settles the whole.
AllFulfilledOrOneRejected ==
  \/ \A i \in DOMAIN pipes : pipes[i].status # "pending"
  \/ \E i \in DOMAIN pipes : pipes[i].status = "rejected"

\* Promise.allSettled resolves once no call is pending; the results are
\* read in profile order.
AllSettled == \A i \in DOMAIN pipes : pipes[i].status # "pending"

Finish ==
  /\ pc = "awaiting"
  /\ AllSettled
  /\ allDapps' = Flatten(pipes)
  /\ successCount' = CountStatus(pipes, "fulfilled")
  /\ failCount' = CountStatus(pipes, "rejected")
  /\ pc' = "done"
  /\ UNCHANGED <<now, cachedStores, lastFetchTime, profiles, pipes>>
  /\ UNCHANGED <<parsed, appVars, ledgerVars>>

\* return allDapps (line 65): the array of entries is all the caller gets;
\* successCount and failCount are locals that were logged.
ReturnValue == [entries |-> allDapps]

\* fetchAllStores has returned and its caller has taken the array.
Return ==
  /\ pc = "done"
  /\ pc' = "idle"
  /\ profiles' = <<>>
  /\ pipes' = <<>>
  /\ allDapps' = <<>>
  /\ successCount' = 0
  /\ failCount' = 0
  /\ UNCHANGED <<now, cachedStores, lastFetchTime>>
  /\ UNCHANGED <<parsed, appVars, ledgerVars>>

\* Another task can run: no call of fetchAllStores is active, or the active
\* one is suspended at allSettled with a request still in flight (the
\* continuation after the last settlement runs as a microtask, before any
\* other task).
Quiescent == pc = "idle" \/ (pc = "awaiting" /\ ~AllSettled)

\* As ClearCache, leaving the fetch time of the URL in place.
ClearCacheEntriesOnly ==
  /\ Quiescent
  /\ \E storeUrl \in URLs :
       /\ cachedStores' = MapDelete(cachedStores, storeUrl)
       /\ lastFetchTime' = lastFetchTime
  /\ DOMAIN cachedStores # {}
  /\ UNCHANGED <<now, pc, profiles, pipes, allDapps, successCount, failCount>>
  /\ UNCHANGED <<parsed, appVars, ledgerVars>>

\* clearCache(storeUrl) and clearCache().
ClearCache ==
  /\ Quiescent
  /\ \E storeUrl \in URLs :
       /\ cachedStores' = MapDelete(cachedStores, storeUrl)
       /\ lastFetchTime' = MapDelete(lastFetchTime, storeUrl)
  /\ DOMAIN cachedStores # {}
  /\ UNCHANGED <<now, pc, profiles, pipes, allDapps, successCount, failCount>>
  /\ UNCHANGED <<parsed, appVars, ledgerVars>>

ClearAll ==
  /\ Quiescent
  /\ DOMAIN cachedStores # {}
  /\ cachedStores' = EmptyMap
  /\ lastFetchTime' = EmptyMap
  /\ UNCHANGED <<now, pc, profiles, pipes, allDapps, successCount, failCount>>
  /\ UNCHANGED <<parsed, appVars, ledgerVars>>

\* Time passes between two tasks. A request is aborted after 10 seconds
\* (line 98), so the long step (cacheDuration - 1 ms) is taken only with no
\* request in flight.
TimePoints ==
  {Now0 + a + b * (cacheDuration - 1) : a \in 0..MaxShortTicks, b \in 0..MaxLongTicks}

Tick ==
  /\ Quiescent
  /\ \E t \in TimePoints :
       /\ t > now
       /\ (t - now >= cacheDuration - 1) => pc = "idle"
       /\ now' = t
  /\ UNCHANGED <<cachedStores, lastFetchTime, pc, profiles, pipes, allDapps,
                 successCount, failCount>>
  /\ UNCHANGED <<parsed, appVars, ledgerVars>>

Next == Start \/ Respond \/ Finish \/ Return \/ ClearCache \/ ClearAll \/ Tick

Spec == Init /\ [][Next]_vars

\* The behaviours of the application itself, whose only use of the
\* aggregator is fetchAllStores (app.js line 150; clearCache has no caller),
\* with the scheduling the runtime guarantees: every request comes to an
\* end (a response, or the abort after 10 seconds) and the continuation of
\* a settled allSettled is run.
AppNext == Start \/ Respond \/ Finish \/ Return \/ Tick

FairSpec == Init /\ [][AppNext]_vars /\ WF_vars(Respond) /\ WF_vars(Finish)

(***************************************************************************)
(* parseStoreData called on its own: any document, store URL and profile.  *)
(***************************************************************************)
ParseStoreData ==
  /\ \E storeData \in StoreDatas, storeUrl \in StoreUrls, profile \in Profiles :
       parsed' = [called |-> TRUE, storeData |-> storeData,
                  storeUrl |-> storeUrl, profile |-> profile, at |-> now,
                  threw |-> ParseThrows(storeData),
                  dapps |-> IF ParseThrows(storeData) THEN <<>>
                            ELSE parseStoreData(storeData, storeUrl, profile, now)]
  /\ UNCHANGED <<now, aggregatorVars, appVars, ledgerVars>>

NormalizerNext == ParseStoreData \/ Tick

NormalizerSpec == Init /\ [][NormalizerNext]_vars

(***************************************************************************)
(* Properties.                                                             *)
(***************************************************************************)
PipeUrl(p) == p.profile.store_url

\* Pipeline i is suspended before the step and settled after it.
Settles(i) ==
  /\ pipes[i].status = "pending"
  /\ i \in DOMAIN pipes'
  /\ pipes'[i].status # "pending"

\* fetchAllStores is called in the step.
Called == pc = "idle" /\ pc' # "idle"

\* The entries of the fulfilled pipelines before pipeline i.
RECURSIVE Offset(_)
Offset(i) ==
  IF i <= 1 THEN 0
  ELSE Offset(i - 1) +
       (IF pipes[i - 1].status = "fulfilled" THEN Len(pipes[i - 1].value) ELSE 0)

Contains(entries, e) == \E k \in DOMAIN entries : entries[k] = e

\* C1: when fetchAllStores returns, the array holds the entries of the
\* pipelines that did not fail, source after source, and nothing else; the
\* number of failed stores it counts is the number of rejected pipelines
\* and the number of successes that of the fulfilled ones.
C1_PartialFailureIsolation ==
  pc = "done" =>
    /\ failCount = Cardinality({i \in DOMAIN pipes : pipes[i].status = "rejected"})
    /\ successCount = Cardinality({i \in DOMAIN pipes : pipes[i].status = "fulfilled"})
    /\ Len(allDapps) = Offset(Len(pipes) + 1)
    /\ \A i \in DOMAIN pipes :
         pipes[i].status = "fulfilled" =>
           \A k \in DOMAIN pipes[i].value :
             allDapps[Offset(i) + k] = pipes[i].value[k]

\* A run of two sources has returned: one failed, the other gave entries.
C1_Witness ==
  /\ pc = "done"
  /\ Len(pipes) = 2
  /\ \E i, j \in DOMAIN pipes :
       /\ pipes[i].status = "rejected"
       /\ pipes[j].status = "fulfilled"
       /\ pipes[j].value # <<>>
       /\ allDapps = pipes[j].value

\* C2: a fetchStore call whose live fetch fails while the cache holds a
\* record for its URL returns that record, whatever its age, and the array
\* fetchAllStores returns contains the entries of every such call.
C2_StaleFallback ==
  /\ [][\A i \in DOMAIN pipes :
          (/\ Settles(i)
           /\ pipes'[i].response = "error"
           /\ PipeUrl(pipes[i]) \in DOMAIN cachedStores)
          => /\ pipes'[i].status = "fulfilled"
             /\ pipes'[i].value = cachedStores[PipeUrl(pipes[i])]]_vars
  /\ [](pc = "done" =>
          \A i \in DOMAIN pipes :
            pipes[i].via = "stale" =>
              \A k \in DOMAIN pipes[i].value : Contains(allDapps, pipes[i].value[k]))

\* A run has returned entries served as a fallback from a record that is no
\* longer fresh.
C2_Witness ==
  /\ pc = "done"
  /\ \E i \in DOMAIN pipes :
       /\ pipes[i].via = "stale"
       /\ pipes[i].response = "error"
       /\ pipes[i].value # <<>>
       /\ PipeUrl(pipes[i]) \in DOMAIN lastFetchTime
       /\ now - lastFetchTime[PipeUrl(pipes[i])] >= cacheDuration
       /\ Contains(allDapps, pipes[i].value[1])

\* C3: once every pipeline is settled fetchAllStores runs to its return,
\* whatever the outcomes; a fetchStore call served from the fresh cache
\* does not raise, and a call that issued a request raises exactly when the
\* live fetch fails and the cache holds no record for its URL.
C3_NeverRaises ==
  /\ []((pc = "awaiting" /\ \A i \in DOMAIN pipes : pipes[i].status # "pending")
          => ENABLED Finish)
  /\ [][Called => \A i \in DOMAIN pipes' : pipes'[i].status # "rejected"]_vars
  /\ [][\A i \in DOMAIN pipes :
          Settles(i) =>
            (pipes'[i].status = "rejected"
               <=> (/\ pipes'[i].response = "error"
                    /\ PipeUrl(pipes[i]) \notin DOMAIN cachedStores))]_vars

\* A run of two sources has returned although both sources failed.
C3_Witness ==
  /\ pc = "done"
  /\ Len(pipes) = 2
  /\ \A i \in DOMAIN pipes : pipes[i].status = "rejected"
  /\ failCount = 2
  /\ allDapps = <<>>

\* The time at which the record of a URL was stored: the timestamp its
\* entries were given by the parseStoreData call that produced them.
StoredAt(storeUrl) == cachedStores[storeUrl][1].timestamp
HasDatedRecord(storeUrl) ==
  storeUrl \in DOMAIN cachedStores /\ cachedStores[storeUrl] # <<>>

\* C4 as stated: a fetchStore call returns the cached entries without a
\* request when the record was stored less than 5 minutes ago, and issues a
\* request when the record is 5 minutes old or older, or absent.
C4_FreshSinceStored ==
  [][Called =>
       \A i \in DOMAIN pipes' :
         LET u == PipeUrl(pipes'[i])
         IN  /\ (HasDatedRecord(u) /\ now - StoredAt(u) < cacheDuration)
                  => (~pipes'[i].requested /\ pipes'[i].value = cachedStores[u])
             /\ (u \notin DOMAIN cachedStores
                   \/ (HasDatedRecord(u) /\ now - StoredAt(u) >= cacheDuration))
                  => pipes'[i].requested]_vars

\* C4, amended: the age that counts is the time since the start of the
\* fetchStore call that stored the record (the recorded fetch time): less
\* than 5 minutes, the cached entries are returned and no request is issued;
\* 5 minutes or more, or no record, a request is issued.
C4_FreshSinceFetchStart ==
  [][Called =>
       \A i \in DOMAIN pipes' :
         LET u == PipeUrl(pipes'[i])
         IN  /\ (u \in DOMAIN lastFetchTime /\ now - lastFetchTime[u] < cacheDuration)
                  => /\ ~pipes'[i].requested
                     /\ pipes'[i].status = "fulfilled"
                     /\ pipes'[i].value = cachedStores[u]
             /\ (u \notin DOMAIN lastFetchTime
                   \/ now - lastFetchTime[u] >= cacheDuration)
                  => (pipes'[i].requested /\ pipes'[i].status = "pending")]_vars

\* A call has just been served a record whose fetch started exactly one
\* millisecond less than 5 minutes before.
C4_Witness ==
  /\ pc \in {"awaiting", "done"}
  /\ \E i \in DOMAIN pipes :
       /\ pipes[i].via = "fresh"
       /\ ~pipes[i].requested
       /\ PipeUrl(pipes[i]) \in DOMAIN lastFetchTime
       /\ pipes[i].started - lastFetchTime[PipeUrl(pipes[i])] = cacheDuration - 1

\* C5: a fetchStore call whose live fetch fails changes neither map; one
\* whose live fetch succeeds sets the entries and the fetch time of its own
\* URL and leaves the records of all other URLs as they were.
C5_CacheFrame ==
  [][\A i \in DOMAIN pipes :
       Settles(i) =>
         LET u == PipeUrl(pipes[i])
         IN  IF pipes'[i].response = "error"
             THEN cachedStores' = cachedStores /\ lastFetchTime' = lastFetchTime
             ELSE /\ DOMAIN cachedStores' = DOMAIN cachedStores \cup {u}
                  /\ DOMAIN lastFetchTime' = DOMAIN lastFetchTime \cup {u}
                  /\ cachedStores'[u] = pipes'[i].value
                  /\ lastFetchTime'[u] = pipes[i].started
                  /\ \A v \in DOMAIN cachedStores \ {u} :
                       cachedStores'[v] = cachedStores[v]
                  /\ \A v \in DOMAIN lastFetchTime \ {u} :
                       lastFetchTime'[v] = lastFetchTime[v]]_vars

\* Both URLs have a record, and in the current run one call has failed and
\* been served the record while another has replaced a record.
C5_Witness ==
  /\ DOMAIN cachedStores = URLs
  /\ \E i, j \in DOMAIN pipes :
       /\ pipes[i].response = "error"
       /\ pipes[i].via = "stale"
       /\ pipes[j].via = "live"
       /\ PipeUrl(pipes[i]) # PipeUrl(pipes[j])

\* C6: fetchAllStores returns only when no pipeline is pending, and, every
\* request coming to an end, a started run returns.
C6_SettleAll ==
  /\ [](pc = "done" => \A i \in DOMAIN pipes : pipes[i].status # "pending")
  /\ (pc = "awaiting" ~> pc = "done")

\* One source is still in flight while another has delivered its entries.
C6_Witness ==
  /\ pc = "awaiting"
  /\ \E i, j \in DOMAIN pipes :
       /\ pipes[i].status = "pending"
       /\ pipes[j].via = "live"
       /\ pipes[j].value # <<>>

\* C7 as stated: in one run at most one pipeline, and so at most one
\* request, is started per distinct catalog URL, and none for a profile
\* whose URL is empty or white space only.
C7_OnePipelinePerUrl ==
  /\ \A i, j \in DOMAIN pipes :
       i # j => PipeUrl(pipes[i]) # PipeUrl(pipes[j])
  /\ \A i \in DOMAIN pipes :
       PipeUrl(pipes[i]) # <<>> /\ trim(PipeUrl(pipes[i])) # <<>>

\* C8 as stated: no two entries of the returned array have the same uid.
C8_UniqueUids ==
  pc = "done" =>
    \A k, m \in DOMAIN allDapps : k # m => allDapps[k].uid # allDapps[m].uid

\* C9 as stated: when a live fetch replaces a record that was parsed from
\* the same document for the same URL and publisher, the new entries equal
\* the old ones in every field but the timestamp.
WithoutTimestamp(entries) ==
  [k \in DOMAIN entries |-> [entries[k] EXCEPT !.timestamp = 0]]

C9_StableNormalization ==
  [][\A i \in DOMAIN pipes :
       (Settles(i) /\ pipes'[i].via = "live"
          /\ PipeUrl(pipes[i]) \in DOMAIN cachedStores)
       => LET u == PipeUrl(pipes[i])
              old == cachedStores[u]
              new == pipes'[i].value
          IN  (\E d \in Docs, t \in TimePoints :
                 /\ ~ParseThrows(d)
                 /\ old = parseStoreData(d, u, pipes[i].profile, t)
                 /\ new = parseStoreData(d, u, pipes[i].profile, now))
              => WithoutTimestamp(old) = WithoutTimestamp(new)]_vars

\* C10 as stated: every entry a pipeline returns carries the URL and the
\* address of the profile the pipeline was started for.
C10_Provenance ==
  \A i \in DOMAIN pipes :
    pipes[i].status = "fulfilled" =>
      \A k \in DOMAIN pipes[i].value :
        /\ pipes[i].value[k].store_url = PipeUrl(pipes[i])
        /\ pipes[i].value[k].developer_address = pipes[i].profile.address

(***************************************************************************)
(* Properties of the normalizer.                                           *)
(***************************************************************************)
\* The catalog entries for which the loop of parseStoreData builds a record,
\* in document order: result k is built from source entry k.
BuildsRecord(e) == ~IsReservedKey(e.key) /\ e.val.kind # "null"
SourceEntries(storeData) == SelectSeq(storeData.entries, BuildsRecord)

\* What a catalog entry declares for a field (nothing unless it is an object).
Declared(e, f) == IF e.val.kind = "object" THEN e.val[f] ELSE undefined

\* The call returned normally.
Returned == parsed.called /\ ~parsed.threw

\* storeUrl is base, "/", and a document name without "/".
SplitsAt(storeUrl, n) ==
  /\ storeUrl[n] = Slash
  /\ \A m \in (n + 1)..Len(storeUrl) : storeUrl[m] # Slash

\* C11: for a store URL <base>/<document name>, the file of every entry is
\* <base>/<miniDapp>, or <base>/<file> when no miniDapp is declared, and its
\* icon is <base>/<icon> when an icon is declared and null when none is.
C11_UrlResolution ==
  Returned =>
    LET src == SourceEntries(parsed.storeData)
        url == parsed.storeUrl
    IN  /\ Len(parsed.dapps) = Len(src)
        /\ \A k \in DOMAIN src, n \in DOMAIN url :
             (src[k].val.kind = "object" /\ SplitsAt(url, n)) =>
               LET base == SubSeq(url, 1, n - 1)
                   d == parsed.dapps[k]
                   miniDapp == Declared(src[k], "miniDapp")
                   file == Declared(src[k], "file")
                   icon == Declared(src[k], "icon")
               IN  /\ Truthy(miniDapp) => d.file = base \o <<Slash>> \o miniDapp
                   /\ (~Truthy(miniDapp) /\ Truthy(file)) =>
                        d.file = base \o <<Slash>> \o file
                   /\ Truthy(icon) => d.icon = base \o <<Slash>> \o icon
                   /\ ~Truthy(icon) => d.icon = null

\* http://host/store/dapps.json with miniDapp game.mds.zip and icon icon.png
\* has been resolved to http://host/store/game.mds.zip and .../icon.png.
C11_Witness ==
  /\ Returned
  /\ parsed.storeUrl = Url1
  /\ parsed.storeData = DocGame
  /\ \E k \in DOMAIN parsed.dapps :
       /\ parsed.dapps[k].file =
            <<104, 116, 116, 112, 58, 47, 47, 104, 111, 115, 116, 47, 115, 116, 111, 114, 101, 47, 103, 97, 109, 101, 46, 109, 100, 115, 46, 122, 105, 112>>
       /\ parsed.dapps[k].icon # null

\* C12: a missing or empty name becomes the map key, a missing or empty
\* version "1.0.0", a missing or empty category "Utility"; a name, version
\* or category that is present and not empty is carried over as it is.
C12_Defaults ==
  Returned =>
    LET src == SourceEntries(parsed.storeData)
    IN  /\ Len(parsed.dapps) = Len(src)
        /\ \A k \in DOMAIN src :
             LET d == parsed.dapps[k]
                 name == Declared(src[k], "name")
                 version == Declared(src[k], "version")
                 category == Declared(src[k], "category")
             IN  /\ d.name = IF name \in {undefined, <<>>} THEN src[k].key ELSE name
                 /\ d.version =
                      IF version \in {undefined, <<>>} THEN Str_DefaultVersion ELSE version
                 /\ d.category =
                      IF category \in {undefined, <<>>} THEN Str_Utility ELSE category

\* An entry with an empty name and category and a declared version has been
\* normalized, next to one that declares its name.
C12_Witness ==
  /\ Returned
  /\ parsed.storeData = DocEdge
  /\ \E k, m \in DOMAIN parsed.dapps :
       /\ parsed.dapps[k].name = Key_Chess
       /\ parsed.dapps[k].category = Str_Utility
       /\ parsed.dapps[k].version = <<51, 46, 49>>
       /\ parsed.dapps[m].name = <<84, 111, 111, 108>>
       /\ parsed.dapps[m].version = Str_DefaultVersion

\* The keys that C13 selects: not reserved, and the value is an object.
IsDappEntry(e) == ~IsReservedKey(e.key) /\ e.val.kind = "object"
SelectedEntries(storeData) == SelectSeq(storeData.entries, IsDappEntry)

\* C13 as stated: parseStoreData returns one entry for each key that is not
\* reserved and whose value is an object, in document order, and none for
\* any other key.
C13_EntrySelection ==
  Returned =>
    LET sel == SelectedEntries(parsed.storeData)
    IN  /\ Len(parsed.dapps) = Len(sel)
        /\ \A k \in DOMAIN parsed.dapps \cap DOMAIN sel :
             parsed.dapps[k].uid =
               generateUid(sel[k].key, parsed.profile.address, parsed.at)

(***************************************************************************)
(* Properties of the counters.                                             *)
(***************************************************************************)
\* C14 as stated: when a live fetch replaces the record of a URL, no dapp
\* (the same map key of the same URL) ends with fewer downloads than the
\* client held for it before.
C14_DownloadsNeverDecrease ==
  [][\A i \in DOMAIN pipes :
       (Settles(i) /\ pipes'[i].via = "live"
          /\ PipeUrl(pipes[i]) \in DOMAIN cachedStores)
       => LET u == PipeUrl(pipes[i])
              old == cachedStores[u]
              new == cachedStores'[u]
          IN  \A d1, d2 \in Docs \ {DocNull}, p1 \in Profiles, t \in TimePoints :
                (/\ old = parseStoreData(d1, u, p1, t)
                 /\ new = parseStoreData(d2, u, pipes[i].profile, now))
                => \A k \in DOMAIN old, m \in DOMAIN new :
                     SourceEntries(d1)[k].key = SourceEntries(d2)[m].key
                       => new[m].downloads >= old[k].downloads]_vars

(***************************************************************************)
(* The application: MiniMartApp (js/app.js) over the chain queries of      *)
(* BlockchainAPI (js/marketplace.js) and the listener of MaximaAPI         *)
(* (js/maximaAPI.js).                                                      *)
(***************************************************************************)
\* "0xD1", "0xD2": dapp uids.
Uid1 == <<48, 120, 68, 49>>
Uid2 == <<48, 120, 68, 50>>
Uids == {Uid1, Uid2}

\* The values JSON.parse yields, by what typeof and === null tell apart.
ParsedObject(fields) == [t |-> "object", fields |-> fields]
ParsedNull == [t |-> "null"]
ParsedNumber(n) == [t |-> "number", n |-> n]

\* The texts JSON.parse is given: JSON, the empty string, a text that is not
\* JSON, and (reading a property that is not there) undefined.
JsonText(value) == [text |-> "json", value |-> value]
EmptyText == [text |-> "empty"]
NotJson == [text |-> "garbage"]
NoText == [text |-> "undefined"]

\* Keys whose values are never undefined in the objects this program
\* serialises (a literal tag, Date.now(), the text put on port "0"), and keys
\* that hold an object.
LiteralKeys == {"type", "timestamp", "0"}
ObjectKeys == {"dapp", "profile", "download"}

\* JSON.stringify(obj): a member whose value is undefined is left out, at
\* both levels of a message; every other member is written.
WithoutUndefined(obj) ==
  [f \in {g \in DOMAIN obj : g \in LiteralKeys \/ obj[g] # undefined} |-> obj[f]]

JSON_stringify(obj) ==
  JsonText(ParsedObject(
    [f \in {g \in DOMAIN obj : g \in LiteralKeys \cup ObjectKeys \/ obj[g] # undefined}
       |-> IF f \in ObjectKeys THEN WithoutUndefined(obj[f]) ELSE obj[f]]))

\* JSON.parse(text) throws a SyntaxError on undefined, "" and non-JSON.
JSON_parseThrows(text) == text.text # "json"
JSON_parse(text) == text.value

\* value.f and value.timestamp of a parsed value: undefined when the member
\* is not there (or the value is a number); on null the read throws.
ReadThrows_null(value) == value.t = "null"
Member(value, f) ==
  IF value.t = "object" /\ f \in DOMAIN value.fields THEN value.fields[f] ELSE undefined
NumMember(value, f) ==
  IF value.t = "object" /\ f \in DOMAIN value.fields THEN value.fields[f] ELSE undefinedNum
HasType(value, type) ==
  value.t = "object" /\ "type" \in DOMAIN value.fields /\ value.fields.type = type

\* A coin with a state array of {port, data} entries, and one without state.
PortEntry(port, data) == [port |-> port, data |-> data]
StateCoin(coinid, state) == [coinid |-> coinid, hasState |-> TRUE, state |-> state]
PlainCoin(coinid) == [coinid |-> coinid, hasState |-> FALSE]

\* The coins registerProfile and registerDapp give rise to: the state object
\* of the transaction, serialised, on port 0.
Str_Fee == <<48, 46, 48, 49>>
ProfileCoin(address, username, timestamp, coinid) ==
  StateCoin(coinid,
    <<PortEntry("0", JSON_stringify(
        [type |-> "minidev_profile_registration", username |-> username,
         address |-> address, timestamp |-> timestamp]))>>)
DappCoin(dapp_uid, name, developer_address, timestamp, coinid) ==
  StateCoin(coinid,
    <<PortEntry("0", JSON_stringify(
        [type |-> "minidev_dapp_registration", dapp_uid |-> dapp_uid,
         name |-> name, version |-> Str_DefaultVersion,
         description |-> Str_NoDescription, category |-> Str_Utility,
         ipfs_hash |-> <<81, 109>>,
         developer_address |-> developer_address, timestamp |-> timestamp]))>>)

\* alice registered twice (at 100 and, with a new name, at 200), bob once;
\* bob registered the dapp 0xD1.
Coins ==
  {ProfileCoin(Alice.address, Alice.username, 100, 1),
   ProfileCoin(Alice.address, <<97, 108, 105>>, 200, 2),
   ProfileCoin(Bob.address, Bob.username, 100, 3),
   DappCoin(Uid1, Key_Chess, Bob.address, 150, 4),
   PlainCoin(5)}
Chains == SeqsUpTo(Coins, MaxCoins)

\* coin.state.find(s => s.port === '0'): the index of the first entry of
\* port 0, or 0 (a coin without state has none).
PortZero(coin) ==
  IF coin.hasState /\ \E k \in DOMAIN coin.state : coin.state[k].port = "0"
  THEN CHOOSE k \in DOMAIN coin.state :
         /\ coin.state[k].port = "0"
         /\ \A j \in 1..(k - 1) : coin.state[j].port # "0"
  ELSE 0

\* The text on port 0 of a coin that has such an entry.
PortZeroData(coin) == coin.state[PortZero(coin)].data

\* BlockchainAPI.queryProfiles(address): a coin gives a record when it has a
\* port-0 entry whose data parses and, with an address given, the parsed
\* value's address is that address (reading it of null throws, which the
\* inner catch swallows). The state's type is not looked at.
GivesProfile(coin, address) ==
  /\ PortZero(coin) # 0
  /\ ~JSON_parseThrows(PortZeroData(coin))
  /\ \/ ~Truthy(address)
     \/ /\ ~ReadThrows_null(JSON_parse(PortZeroData(coin)))
        /\ Member(JSON_parse(PortZeroData(coin)), "address") = address

\* {...profileData, txId: coin.coinid}: the members of the parsed value (none
\* for null or a number) with txId added. (The block member is left out.)
ProfileOfCoin(coin) ==
  LET value == JSON_parse(PortZeroData(coin))
  IN  IF value.t = "object"
      THEN [txId |-> coin.coinid] @@ value.fields
      ELSE [txId |-> coin.coinid]

RECURSIVE ProfilesOf(_, _)
ProfilesOf(cs, address) ==
  IF cs = <<>> THEN <<>>
  ELSE (IF GivesProfile(Head(cs), address) THEN <<ProfileOfCoin(Head(cs))>> ELSE <<>>)
       \o ProfilesOf(Tail(cs), address)

\* queryProfiles(address = null).
queryProfiles(cs) == ProfilesOf(cs, null)

\* BlockchainAPI.queryRegisteredDapps(limit = 100).
RegistryLimit == 100

\* A coin gives an entry when its port-0 entry has data (not undefined, not
\* "") that parses to a value tagged as a dapp registration; reading the
\* type of null throws, which the inner catch swallows.
IsDappRegistration(coin) ==
  /\ PortZero(coin) # 0
  /\ PortZeroData(coin).text \notin {"undefined", "empty"}
  /\ ~JSON_parseThrows(PortZeroData(coin))
  /\ HasType(JSON_parse(PortZeroData(coin)), "minidev_dapp_registration")

\* As DappOfCoin, reading the uid from the member `uid`.
DappOfCoinByUid(coin) ==
  LET dappData == JSON_parse(PortZeroData(coin))
  IN  [uid |-> Member(dappData, "uid"), name |-> Member(dappData, "name"),
       version |-> Member(dappData, "version"),
       description |-> Member(dappData, "description"),
       category |-> Member(dappData, "category"),
       icon |-> OrElse(Member(dappData, "icon"), null),
       ipfs_hash |-> Member(dappData, "ipfs_hash"),
       developer_address |-> Member(dappData, "developer_address"),
       timestamp |-> NumMember(dappData, "timestamp"), downloads |-> 0, tips |-> 0,
       txId |-> coin.coinid]

\* dapps.push({uid: dappData.dapp_uid, ...}) (lines 469-482).
DappOfCoin(coin) ==
  LET dappData == JSON_parse(PortZeroData(coin))
  IN  [uid |-> Member(dappData, "dapp_uid"), name |-> Member(dappData, "name"),
       version |-> Member(dappData, "version"),
       description |-> Member(dappData, "description"),
       category |-> Member(dappData, "category"),
       icon |-> OrElse(Member(dappData, "icon"), null),
       ipfs_hash |-> Member(dappData, "ipfs_hash"),
       developer_address |-> Member(dappData, "developer_address"),
       timestamp |-> NumMember(dappData, "timestamp"), downloads |-> 0, tips |-> 0,
       txId |-> coin.coinid]

\* As RegisteredUpTo, giving up the scan at the first coin that gives no entry.
RECURSIVE RegisteredPrefix(_, _, _)
RegisteredPrefix(cs, found, limit) ==
  IF cs = <<>> THEN found
  ELSE IF ~IsDappRegistration(Head(cs)) THEN found
  ELSE IF Len(found) + 1 >= limit THEN Append(found, DappOfCoin(Head(cs)))
  ELSE RegisteredPrefix(Tail(cs), Append(found, DappOfCoin(Head(cs))), limit)

\* The for loop of lines 459-491: every coin is looked at in turn, and after
\* each one the loop is left when there are `limit` entries or more.
RECURSIVE RegisteredUpTo(_, _, _)
RegisteredUpTo(cs, found, limit) ==
  IF cs = <<>> THEN found
  ELSE LET dapps == IF IsDappRegistration(Head(cs))
                    THEN Append(found, DappOfCoin(Head(cs)))
                    ELSE found
       IN  IF Len(dapps) >= limit THEN dapps
           ELSE RegisteredUpTo(Tail(cs), dapps, limit)

queryRegisteredDapps(cs, limit) == RegisteredUpTo(cs, <<>>, limit)

\* profile.address of a record; a dapp registration read as a profile has none.
AddressOf(r) == IF "address" \in DOMAIN r THEN r.address ELSE undefined

\* blockchainProfiles.forEach(profile => this.profiles[profile.address] = profile):
\* records are stored in the order of the query; the key is the address
\* converted to a string.
RECURSIVE StoreProfiles(_, _)
StoreProfiles(table, ps) ==
  IF ps = <<>> THEN table
  ELSE StoreProfiles(MapSet(table, Template(AddressOf(Head(ps))), Head(ps)), Tail(ps))

\* The application on start-up: the chain is any chain.
MiniMartInit ==
  /\ now = Now0
  /\ cachedStores = EmptyMap
  /\ lastFetchTime = EmptyMap
  /\ pc = "idle"
  /\ profiles = <<>>
  /\ pipes = <<>>
  /\ allDapps = <<>>
  /\ successCount = 0
  /\ failCount = 0
  /\ parsed = NoCall
  /\ AppConstructed
  /\ coins \in Chains
  /\ LedgerIdle

\* init, line 38: await this.loadInitialData(). The first statement of its
\* try block calls this.loadProfiles (line 142), a method defined nowhere:
\* the call throws a TypeError, the catch block (lines 166-169) shows a
\* toast, and fetchAllStores (line 150), queryRegisteredDapps (line 153) and
\* the assignment to this.dapps (line 157) are not reached.
LoadInitialData ==
  /\ appPc = "constructed"
  /\ appPc' = "loaded"
  /\ UNCHANGED <<now, aggregatorVars, parsed, ledgerVars, coins, appDapps, appProfiles,
                 message, handlerStatus, dispatched>>

\* init, lines 42-52: the profiles of the chain are stored by address; a
\* failed query yields no profile.
QueryProfiles ==
  /\ appPc = "loaded"
  /\ appPc' = "profiles"
  /\ \E ready \in BOOLEAN :
       appProfiles' =
         StoreProfiles(appProfiles, IF ready THEN queryProfiles(coins) ELSE <<>>)
  /\ UNCHANGED <<now, aggregatorVars, parsed, ledgerVars, coins, appDapps, message,
                 handlerStatus, dispatched>>

\* init with setupMaximaMessages called ahead of loadInitialData.
SetupMaximaMessagesFirst ==
  /\ appPc = "constructed"
  /\ listener = "none"
  /\ listener' = "minidev"
  /\ UNCHANGED <<now, aggregatorVars, parsed, coins, appPc, appDapps, appProfiles,
                 message, handlerStatus, dispatched>>
  /\ UNCHANGED <<queried, apis, balance, commands, publish, inbound,
                 download, boot>>

\* init, line 56: setupMaximaMessages registers the handler with
\* listenForMessages, which subscribes it with the command
\* `maxima action:listen application:minidev` (maximaAPI.js line 234).
SetupMaximaMessages ==
  /\ appPc = "profiles"
  /\ appPc' = "listening"
  /\ listener' = "minidev"
  /\ UNCHANGED <<now, aggregatorVars, parsed, coins, appDapps, appProfiles,
                 message, handlerStatus, dispatched>>
  /\ UNCHANGED <<queried, apis, balance, commands, publish, inbound,
                 download, boot>>

\* The dapp of a minidev_new_dapp message as broadcastNewDapp sends it
\* (maximaAPI.js lines 105-113), and one from a peer that adds a file URL.
BroadcastDapp(uid, name, developer_address) ==
  [uid |-> uid, name |-> name, version |-> Str_DefaultVersion,
   description |-> Str_NoDescription, category |-> Str_Utility,
   ipfs_hash |-> <<81, 109>>, developer_address |-> developer_address]
BroadcastDappWithFile(uid, name, developer_address, file) ==
  [uid |-> uid, name |-> name, version |-> Str_DefaultVersion,
   description |-> Str_NoDescription, category |-> Str_Utility,
   ipfs_hash |-> <<81, 109>>, developer_address |-> developer_address,
   file |-> file]

MessageDapps ==
  {BroadcastDapp(Uid1, Key_Chess, Bob.address),
   BroadcastDapp(Uid2, Key_Aa, Carol.address),
   BroadcastDappWithFile(Uid2, Key_Aa, Carol.address,
                         BaseUrl(Url1) \o <<Slash>> \o <<97, 46, 122, 105, 112>>)}

\* The profile of a minidev_profile_update message (maximaAPI.js lines 75-81).
MessageProfiles ==
  {[address |-> Alice.address, username |-> <<97, 108, 105>>],
   [address |-> Carol.address, username |-> Carol.username]}

\* What JSON.parse of an inbound message can yield: the five message types
\* MaximaAPI broadcasts, a type nobody sends, an object without a type
\* (its type reads as undefined), and null.
NoType == "undefined"
Messages ==
  [kind : {"object"}, type : {"minidev_new_dapp"}, dapp : MessageDapps,
   timestamp : {900}]
  \cup [kind : {"object"}, type : {"minidev_profile_update"},
        profile : MessageProfiles, timestamp : {900}]
  \cup [kind : {"object"}, type : {"minidev_download"},
        download : [dapp_uid : Uids, downloader_address : {Carol.address}],
        timestamp : {900}]
  \cup [kind : {"object"}, type : {"minidev_tip", "minidev_review", "hello", NoType},
        timestamp : {900}]
  \cup {[kind |-> "null"]}

\* As handleNewDapp, skipping a dapp whose uid is already listed.
handleNewDappUnlessListed(dapp) ==
  IF \E k \in DOMAIN appDapps : appDapps[k].uid = dapp.uid
  THEN appDapps
  ELSE <<dapp>> \o appDapps

\* handleNewDapp: this.dapps.unshift(dapp).
handleNewDapp(dapp) == <<dapp>> \o appDapps

\* handleProfileUpdate: the profile is logged, nothing is stored.
handleProfileUpdate(profile) == appProfiles

\* handleMaximaMessage: the switch over message.type.
DappsAfterMessage(m) ==
  IF m.kind = "object" /\ m.type = "minidev_new_dapp"
  THEN handleNewDapp(m.dapp)
  ELSE appDapps

ProfilesAfterMessage(m) ==
  IF m.kind = "object" /\ m.type = "minidev_profile_update"
  THEN handleProfileUpdate(m.profile)
  ELSE appProfiles

RecognisedTypes == {"minidev_new_dapp", "minidev_profile_update"}

\* As HandlerStatus, with a default case that throws.
HandlerStatusStrict(m) ==
  IF m.kind = "object" /\ m.type \in RecognisedTypes THEN "fulfilled" ELSE "rejected"

\* The promise handleMaximaMessage returns: reading message.type of null
\* throws; the default case only logs.
HandlerStatus(m) == IF m.kind = "null" THEN "rejected" ELSE "fulfilled"

\* The listener calls the handler with a parsed message (maximaAPI.js lines
\* 236-241); the handler's promise is dropped, the listener stays.
HandleMaximaMessage ==
  /\ appPc = "listening"
  /\ dispatched < MaxMessages
  /\ \E m \in Messages :
       /\ message' = m
       /\ handlerStatus' = HandlerStatus(m)
       /\ appDapps' = DappsAfterMessage(m)
       /\ appProfiles' = ProfilesAfterMessage(m)
  /\ dispatched' = dispatched + 1
  /\ UNCHANGED <<now, aggregatorVars, parsed, ledgerVars, coins, appPc>>

\* dapp.file and dapp.downloads of a listing entry that may lack them.
FileOf(dapp) == IF "file" \in DOMAIN dapp THEN dapp.file ELSE undefined
DownloadsOf(dapp) ==
  IF "downloads" \in DOMAIN dapp THEN dapp.downloads ELSE undefinedNum

\* this.dapps.find(d => d.uid === dappUid): the index of the first match, or 0.
FindDapp(dappUid) ==
  IF \E k \in DOMAIN appDapps : appDapps[k].uid = dappUid
  THEN CHOOSE k \in DOMAIN appDapps :
         /\ appDapps[k].uid = dappUid
         /\ \A j \in 1..(k - 1) : appDapps[j].uid # dappUid
  ELSE 0

\* What `await window.minimaAPI.cmd(...)` gives for the install command
\* (_mdsCommand): a rejection while the API is not ready, the mock's answer,
\* which has no status, in development mode, and otherwise the node's answer,
\* which resolves when its status is truthy (true, or another truthy value)
\* and rejects when it is not.
InstallResponses ==
  CASE apis.minimaAPI = "notReady" -> {"notInitialized"}
    [] apis.minimaAPI = "development" -> {"mock"}
    [] OTHER -> {"statusTrue", "statusTruthy", "statusFalse"}

\* downloadDapp with `if (installResult.status)` for the strict comparison.
DownloadDappOnTruthy ==
  /\ appPc = "listening"
  /\ \E dappUid \in Uids, response \in InstallResponses,
        sent \in {"fulfilled", "rejected"} :
       LET k == FindDapp(dappUid)
           hasFile == k # 0 /\ Truthy(FileOf(appDapps[k]))
           installed == hasFile /\ response \in {"statusTrue", "statusTruthy"}
       IN  /\ installed => DownloadsOf(appDapps[k]) < MaxDownloads
           /\ appDapps' =
                IF installed
                THEN [appDapps EXCEPT ![k] =
                        MapSet(appDapps[k], "downloads",
                               (IF DownloadsOf(appDapps[k]) \in {undefinedNum, 0}
                                THEN 0 ELSE DownloadsOf(appDapps[k])) + 1)]
                ELSE appDapps
           /\ download' =
                [called |-> TRUE,
                 outcome |-> CASE k = 0 -> "notFound"
                               [] ~hasFile -> "noFile"
                               [] installed -> "installed"
                               [] OTHER -> "installFailed",
                 install |-> IF hasFile THEN response ELSE "none",
                 broadcast |-> IF installed THEN sent ELSE "none"]
  /\ UNCHANGED <<now, aggregatorVars, parsed, coins, appPc, appProfiles,
                 message, handlerStatus, dispatched, queried, apis, balance,
                 commands, publish, listener, inbound, boot>>

\* downloadDapp(dappUid). An unknown uid and an entry without a file URL
\* return after a toast. Otherwise the install command is awaited: only with
\* installResult.status === true is broadcastDownload called, in a try of
\* its own, and then dapp.downloads = (dapp.downloads || 0) + 1; every other
\* answer is thrown or rethrown into the catch blocks, which only report.
DownloadDapp ==
  /\ appPc = "listening"
  /\ \E dappUid \in Uids, response \in InstallResponses,
        sent \in {"fulfilled", "rejected"} :
       LET k == FindDapp(dappUid)
           hasFile == k # 0 /\ Truthy(FileOf(appDapps[k]))
           installed == hasFile /\ response = "statusTrue"
       IN  /\ installed => DownloadsOf(appDapps[k]) < MaxDownloads
           /\ appDapps' =
                IF installed
                THEN [appDapps EXCEPT ![k] =
                        MapSet(appDapps[k], "downloads",
                               (IF DownloadsOf(appDapps[k]) \in {undefinedNum, 0}
                                THEN 0 ELSE DownloadsOf(appDapps[k])) + 1)]
                ELSE appDapps
           /\ download' =
                [called |-> TRUE,
                 outcome |-> CASE k = 0 -> "notFound"
                               [] ~hasFile -> "noFile"
                               [] installed -> "installed"
                               [] OTHER -> "installFailed",
                 install |-> IF hasFile THEN response ELSE "none",
                 broadcast |-> IF installed THEN sent ELSE "none"]
  /\ UNCHANGED <<now, aggregatorVars, parsed, coins, appPc, appProfiles,
                 message, handlerStatus, dispatched, queried, apis, balance,
                 commands, publish, listener, inbound, boot>>

\* The address getUserMinimaAddress returns: the user is alice.
UserAddress == Alice.address

\* completeProfileCreation: once saveProfile has succeeded, the new record
\* is stored under the user's address, stamped with Date.now().
CompleteProfileCreation ==
  /\ appPc # "constructed"
  /\ \E username \in {Alice.username, <<97, 108, 105>>},
        storeUrl \in {<<>>, Url1}, saved \in BOOLEAN :
       appProfiles' =
         IF saved
         THEN MapSet(appProfiles, UserAddress,
                     [username |-> username,
                      store_url |-> OrElse(storeUrl, null),
                      maxima_address |-> null,
                      address |-> UserAddress,
                      timestamp |-> now,
                      identity_created |-> TRUE])
         ELSE appProfiles
  /\ UNCHANGED <<now, aggregatorVars, parsed, ledgerVars, coins, appPc, appDapps,
                 message, handlerStatus, dispatched>>

MiniMartNext ==
  \/ LoadInitialData
  \/ QueryProfiles
  \/ SetupMaximaMessages
  \/ HandleMaximaMessage
  \/ CompleteProfileCreation
  \/ Tick

MiniMartSpec == MiniMartInit /\ [][MiniMartNext]_vars

\* The listing under start-up, live events and installs, for each way
\* minimaAPI can run the install command.
ListingInit ==
  /\ now = Now0
  /\ cachedStores = EmptyMap
  /\ lastFetchTime = EmptyMap
  /\ pc = "idle"
  /\ profiles = <<>>
  /\ pipes = <<>>
  /\ allDapps = <<>>
  /\ successCount = 0
  /\ failCount = 0
  /\ parsed = NoCall
  /\ AppConstructed
  /\ coins \in Chains
  /\ queried = NoCall
  /\ apis \in {[blockchainAPI |-> TRUE, minimaAPI |-> mode] :
                 mode \in {"mds", "development", "notReady"}}
  /\ balance = 0
  /\ commands = <<>>
  /\ publish = NoPublish
  /\ listener = "none"
  /\ inbound = [kind |-> "none", calls |-> 0]
  /\ download = NoDownload
  /\ boot = Booted(apis.minimaAPI)

ListingNext ==
  \/ LoadInitialData
  \/ QueryProfiles
  \/ SetupMaximaMessages
  \/ HandleMaximaMessage
  \/ DownloadDapp
  \/ Tick

ListingSpec == ListingInit /\ [][ListingNext]_vars

(***************************************************************************)
(* Properties of the application.                                          *)
(***************************************************************************)
\* loadInitialData completes in the step.
LoadCompletes == appPc = "constructed" /\ appPc' = "loaded"

\* A message is handed to handleMaximaMessage in the step.
Handles == dispatched' = dispatched + 1

\* The message handled in the step is an object of the given type.
HandlesType(type) ==
  Handles /\ message'.kind = "object" /\ message'.type = type

\* C15 as stated: when loadInitialData completes, this.dapps is the P2P
\* entries of the known profiles followed by the entries of
\* queryRegisteredDapps; with no profile known there are no P2P entries.
C15_InitialListing ==
  [][(LoadCompletes /\ DOMAIN appProfiles = {})
       => appDapps' = <<>> \o queryRegisteredDapps(coins, RegistryLimit)]_vars

\* C16: a minidev_new_dapp message puts its dapp first, keeps the previous
\* entries in their order behind it, and makes the listing one longer, also
\* when the uid is already listed.
C16_NewDappPrepends ==
  [][HandlesType("minidev_new_dapp")
       => /\ Len(appDapps') = Len(appDapps) + 1
          /\ appDapps'[1] = message'.dapp
          /\ \A k \in DOMAIN appDapps : appDapps'[k + 1] = appDapps[k]]_vars

\* A dapp whose uid was already listed has been prepended.
C16_Witness ==
  /\ message.kind = "object"
  /\ message.type = "minidev_new_dapp"
  /\ Len(appDapps) = 2
  /\ appDapps[1] = message.dapp
  /\ appDapps[1].uid = appDapps[2].uid

\* C17 as stated: after a minidev_profile_update message for address a,
\* this.profiles maps a to the message's profile, the records of the other
\* addresses are as before, and the listing is as before.
C17_ProfileUpsert ==
  [][HandlesType("minidev_profile_update")
       => /\ appProfiles' =
               MapSet(appProfiles, message'.profile.address, message'.profile)
          /\ appDapps' = appDapps]_vars

\* C18 as stated: a minidev_download message naming a listed uid adds one
\* to the downloads of the matching entry and changes no other entry.
C18_DownloadEventCounts ==
  [][(/\ HandlesType("minidev_download")
      /\ \E k \in DOMAIN appDapps : appDapps[k].uid = message'.download.dapp_uid)
       => /\ Len(appDapps') = Len(appDapps)
          /\ \E k \in DOMAIN appDapps :
               /\ appDapps[k].uid = message'.download.dapp_uid
               /\ DownloadsOf(appDapps'[k]) =
                    (IF DownloadsOf(appDapps[k]) = undefinedNum
                     THEN 0 ELSE DownloadsOf(appDapps[k])) + 1
               /\ \A j \in DOMAIN appDapps \ {k} : appDapps'[j] = appDapps[j]]_vars

\* C19: a message object whose type is none of the types the switch knows
\* (a type nobody sends, no type at all, and the types the application only
\* sends) leaves this.dapps and this.profiles as they are, its handler does
\* not throw, and the listener goes on handing messages over.
C19_UnknownTypeIgnored ==
  /\ [][(Handles /\ message'.kind = "object"
           /\ message'.type \notin {"minidev_new_dapp", "minidev_profile_update"})
          => /\ appDapps' = appDapps
             /\ appProfiles' = appProfiles
             /\ handlerStatus' = "fulfilled"
             /\ appPc' = "listening"]_vars
  /\ []((appPc = "listening" /\ dispatched < MaxMessages)
          => ENABLED HandleMaximaMessage)

\* A message of a type nobody sends has been handled with profiles in the
\* table, and a further message can still come.
C19_Witness ==
  /\ message.kind = "object"
  /\ message.type = "hello"
  /\ handlerStatus = "fulfilled"
  /\ DOMAIN appProfiles # {}
  /\ dispatched < MaxMessages
  /\ ENABLED HandleMaximaMessage

\* C20 as stated: an address of this.profiles stays, its record is replaced
\* only by a record of the same address with a newer timestamp, and after
\* the registry read the table holds, for every address read, a record at
\* least as new as every record read for it.
C20_ProfilesOnlySuperseded ==
  [][/\ \A a \in DOMAIN appProfiles :
          /\ a \in DOMAIN appProfiles'
          /\ appProfiles'[a] # appProfiles[a]
               => /\ AddressOf(appProfiles'[a]) = a
                  /\ appProfiles'[a].timestamp > appProfiles[a].timestamp
     /\ (appPc = "loaded" /\ appPc' = "profiles" /\ appProfiles' # appProfiles)
          => \A k \in DOMAIN queryProfiles(coins) :
               LET r == queryProfiles(coins)[k]
               IN  appProfiles'[Template(AddressOf(r))].timestamp >= r.timestamp]_vars

(***************************************************************************)
(* The chain queries of BlockchainAPI, called directly on any ledger.      *)
(***************************************************************************)
\* Coins of every kind the scans tell apart: without state, with a state
\* that has no port 0, with a port-0 entry that has no data, empty data,
\* data that is not JSON, JSON null, a JSON number, a profile registration,
\* and dapp registrations (one with another port before port 0).
LedgerCoins ==
  {PlainCoin(5),
   StateCoin(6, <<PortEntry("1", JSON_stringify(
                    [type |-> "minidev_dapp_registration", dapp_uid |-> Uid2]))>>),
   StateCoin(7, <<PortEntry("0", NoText)>>),
   StateCoin(8, <<PortEntry("0", EmptyText)>>),
   StateCoin(9, <<PortEntry("0", NotJson)>>),
   StateCoin(10, <<PortEntry("0", JsonText(ParsedNull))>>),
   StateCoin(11, <<PortEntry("0", JsonText(ParsedNumber(5)))>>),
   ProfileCoin(Alice.address, Alice.username, 100, 1),
   ProfileCoin(Bob.address, Bob.username, 100, 3),
   DappCoin(Uid1, Key_Chess, Bob.address, 150, 4),
   StateCoin(12, <<PortEntry("1", NotJson),
                   PortEntry("0", JSON_stringify(
                     [type |-> "minidev_dapp_registration", dapp_uid |-> Uid2,
                      name |-> Key_Aa, developer_address |-> Carol.address,
                      timestamp |-> 160]))>>)}

\* A ledger with one dapp registration more than the default limit.
FullRegistry ==
  [k \in 1..(RegistryLimit + 1) |-> DappCoin(Uid1, Key_Chess, Bob.address, 150, 100 + k)]

Ledgers == SeqsUpTo(LedgerCoins, MaxScan) \cup {FullRegistry}

\* The limits a caller passes: small ones, and none (the default).
Limits == 0..MaxLimit \cup {RegistryLimit}

RegistryInit ==
  /\ now = Now0
  /\ cachedStores = EmptyMap
  /\ lastFetchTime = EmptyMap
  /\ pc = "idle"
  /\ profiles = <<>>
  /\ pipes = <<>>
  /\ allDapps = <<>>
  /\ successCount = 0
  /\ failCount = 0
  /\ parsed = NoCall
  /\ AppConstructed
  /\ coins \in Ledgers
  /\ LedgerIdle

\* queryRegisteredDapps(limit): when the API is not ready, the command
\* fails or its response has no coins, the result is []; otherwise the scan.
CallQueryRegisteredDapps ==
  /\ \E limit \in Limits, answered \in BOOLEAN :
       queried' = [called |-> TRUE, fn |-> "queryRegisteredDapps",
                   limit |-> limit, answered |-> answered,
                   result |-> IF answered THEN queryRegisteredDapps(coins, limit)
                              ELSE <<>>]
  /\ UNCHANGED <<now, aggregatorVars, parsed, appVars, apis, balance, commands,
                 publish, listener, inbound,
                 download, boot>>

\* queryProfiles(address), likewise.
CallQueryProfiles ==
  /\ \E address \in {null, Alice.address, Bob.address}, answered \in BOOLEAN :
       queried' = [called |-> TRUE, fn |-> "queryProfiles",
                   address |-> address, answered |-> answered,
                   result |-> IF answered THEN ProfilesOf(coins, address) ELSE <<>>]
  /\ UNCHANGED <<now, aggregatorVars, parsed, appVars, apis, balance, commands,
                 publish, listener, inbound,
                 download, boot>>

RegistryNext == CallQueryRegisteredDapps \/ CallQueryProfiles

RegistrySpec == RegistryInit /\ [][RegistryNext]_vars

(***************************************************************************)
(* Properties of the chain queries.                                        *)
(***************************************************************************)
\* The last call was an answered call of the given query.
Answered(fn) == queried.called /\ queried.fn = fn /\ queried.answered

\* The port-0 state of the coin parses as JSON tagged as a dapp registration.
TaggedRegistration(coin) ==
  /\ coin.hasState
  /\ \E k \in DOMAIN coin.state :
       /\ coin.state[k].port = "0"
       /\ coin.state[k].data.text = "json"
       /\ coin.state[k].data.value.t = "object"
       /\ "type" \in DOMAIN coin.state[k].data.value.fields
       /\ coin.state[k].data.value.fields.type = "minidev_dapp_registration"

\* The result holds, in order, one entry for each coin of cs: the entry of
\* coin k carries that coin's id and the uid of its registration.
OneEntryEach(result, cs) ==
  /\ Len(result) = Len(cs)
  /\ \A k \in DOMAIN cs :
       /\ result[k].txId = cs[k].coinid
       /\ result[k] = DappOfCoin(cs[k])

\* The number of tagged coins among the first n coins.
TaggedUpTo(cs, n) == Len(SelectSeq(SubSeq(cs, 1, n), TaggedRegistration))

\* The number of coins the scan looks at: up to and including the first
\* coin at which the tagged coins number `limit` or more.
Scanned(cs, limit) ==
  IF \E n \in DOMAIN cs : TaggedUpTo(cs, n) >= limit
  THEN CHOOSE n \in DOMAIN cs :
         /\ TaggedUpTo(cs, n) >= limit
         /\ \A m \in 1..(n - 1) : TaggedUpTo(cs, m) < limit
  ELSE Len(cs)

\* C21 as stated: an answered queryRegisteredDapps returns, in scan order,
\* one entry for each coin whose port-0 state parses as JSON tagged as a
\* dapp registration, whatever the other coins are.
C21_EveryTaggedCoin ==
  Answered("queryRegisteredDapps")
    => OneEntryEach(queried.result, SelectSeq(coins, TaggedRegistration))

\* C21, amended: an answered queryRegisteredDapps(limit) returns, in scan
\* order, one entry for each tagged coin among the coins it looks at, and it
\* looks at the coins up to and including the first one at which the entries
\* number `limit` or more; coins without state, without port 0, without
\* data, with data that does not parse or with another tag are skipped and
\* the coins after them are still looked at.
C21_TaggedCoinsUntilLimit ==
  Answered("queryRegisteredDapps")
    => OneEntryEach(queried.result,
                    SelectSeq(SubSeq(coins, 1, Scanned(coins, queried.limit)),
                              TaggedRegistration))

\* The default scan went past a coin whose data is not JSON and a coin
\* without state and returned the registration behind them.
C21_Witness ==
  /\ Answered("queryRegisteredDapps")
  /\ queried.limit = RegistryLimit
  /\ Len(coins) = 3
  /\ coins[1] = StateCoin(9, <<PortEntry("0", NotJson)>>)
  /\ coins[2] = PlainCoin(5)
  /\ TaggedRegistration(coins[3])
  /\ Len(queried.result) = 1
  /\ queried.result[1].txId = coins[3].coinid

\* The port-0 state of the coin parses as JSON tagged as a profile
\* registration.
TaggedProfile(coin) ==
  /\ coin.hasState
  /\ \E k \in DOMAIN coin.state :
       /\ coin.state[k].port = "0"
       /\ coin.state[k].data.text = "json"
       /\ coin.state[k].data.value.t = "object"
       /\ "type" \in DOMAIN coin.state[k].data.value.fields
       /\ coin.state[k].data.value.fields.type = "minidev_profile_registration"

\* The record is one of a profile registration.
IsProfileRecord(r) ==
  "type" \in DOMAIN r /\ r.type = "minidev_profile_registration"

\* The profile coins asked for: all of them, or those of the address.
ProfileCoinsFor(address) ==
  SelectSeq(coins,
    LAMBDA c : /\ TaggedProfile(c)
               /\ Truthy(address) => ProfileOfCoin(c).address = address)

\* C22 as stated: an answered queryProfiles returns only records tagged as
\* profile registrations, one for each profile coin in scan order (with an
\* address given, for each profile coin of that address), whatever coins
\* that do not parse stand before them.
C22_IdentityRecordsOnly ==
  Answered("queryProfiles")
    => /\ \A k \in DOMAIN queried.result : IsProfileRecord(queried.result[k])
       /\ Len(queried.result) = Len(ProfileCoinsFor(queried.address))
       /\ \A k \in DOMAIN ProfileCoinsFor(queried.address) :
            queried.result[k].txId = ProfileCoinsFor(queried.address)[k].coinid

\* C23 as stated: an answered queryRegisteredDapps(limit) returns at most
\* `limit` entries, for every limit from 0 on.
C23_AtMostLimit ==
  Answered("queryRegisteredDapps") => Len(queried.result) <= queried.limit

(***************************************************************************)
(* Publishing: MiniMartApp.publishDapp over BlockchainAPI.registerDapp,    *)
(* MinimaAPI.sendCustomTransaction and the broadcasts of MaximaAPI.        *)
(***************************************************************************)
TreasuryAddress == "MxG086AUGQMWM6S47P6GWR2U1AV3391EPR5Q53N7DN9MGNMMN6BMH270SV8QRSC"

\* As RegistrationState, without the IPFS hash.
RegistrationStateWithoutHash(dapp, developerAddress, t) ==
  [type |-> "minidev_dapp_registration", dapp_uid |-> dapp.uid,
   name |-> dapp.name, version |-> dapp.version,
   description |-> dapp.description, category |-> dapp.category,
   developer_address |-> developerAddress, timestamp |-> t,
   registration_fee |-> Str_Fee]

\* registerDapp: transactionData.state (marketplace.js lines 410-421).
RegistrationState(dapp, developerAddress, t) ==
  [type |-> "minidev_dapp_registration", dapp_uid |-> dapp.uid,
   name |-> dapp.name, version |-> dapp.version,
   description |-> dapp.description, category |-> dapp.category,
   ipfs_hash |-> dapp.ipfs_hash,
   developer_address |-> developerAddress, timestamp |-> t,
   registration_fee |-> Str_Fee]

\* registerDapp: transactionData.
TransactionData(dapp, developerAddress, t) ==
  [amount |-> Str_Fee, address |-> TreasuryAddress,
   state |-> RegistrationState(dapp, developerAddress, t)]

\* sendCustomTransaction: the command `send amount:<amount> address:<address>
\* state:<JSON of {"0": <JSON of the state>}>`, by its parts.
SendCommand(transactionData) ==
  [cmd |-> "send", amount |-> transactionData.amount,
   address |-> transactionData.address,
   state |-> JSON_stringify("0" :> JSON_stringify(transactionData.state))]

\* btoa(text): the text in Base64. The Base64 text of a JSON object starts
\* with "e" (the first six bits of "{"), which no JSON text does, so it is
\* not JSON.
btoa(text) == [text |-> "base64", of |-> text]

\* broadcastNewDapp, broadcastProfileUpdate, broadcastDownload: the command
\* `maxima action:send application:minimart data:<Base64 of the JSON>`.
MaximaSend(msg) ==
  [cmd |-> "maxima", action |-> "send", application |-> "minimart",
   data |-> btoa(JSON_stringify(msg))]

\* The messages the three broadcasts build.
NewDappMessage(dapp, t) ==
  [type |-> "minidev_new_dapp",
   dapp |-> [uid |-> dapp.uid, name |-> dapp.name, version |-> dapp.version,
             description |-> dapp.description, category |-> dapp.category,
             ipfs_hash |-> dapp.ipfs_hash,
             developer_address |-> dapp.developer_address],
   timestamp |-> t]
ProfileUpdateMessage(profile, t) ==
  [type |-> "minidev_profile_update",
   profile |-> [address |-> profile.address, username |-> profile.username,
                bio |-> <<>>, gitUrl |-> undefined, twitterUrl |-> undefined],
   timestamp |-> t]
DownloadMessage(dappUid, downloaderAddress, t) ==
  [type |-> "minidev_download",
   download |-> [dapp_uid |-> dappUid, downloader_address |-> downloaderAddress],
   timestamp |-> t]

\* The amount of a send command, in hundredths: "0.01" is 1.
Hundredths(amount) ==
  (amount[1] - 48) * 100 + (amount[3] - 48) * 10 + (amount[4] - 48)

\* What _mdsCommand can get for a send command. In development mode the mock
\* answers {response: {mock: true, command}}. A node answers with status
\* false, with a response that has no txpowid, or with a txpowid; it makes a
\* transaction, and answers with its txpowid, only when the balance covers
\* the amount.
SendResponses(command) ==
  IF apis.minimaAPI = "development" THEN {"mock"}
  ELSE {"statusFalse", "noTxpowid"}
       \cup (IF balance >= Hundredths(command.amount) THEN {"txpowid"} ELSE {})

\* As SendOutcome, returning undefined where there is no txpowid and where
\* the command failed.
SendOutcomeSwallowing(response) == "fulfilled"

\* sendCustomTransaction and registerDapp on the response: the txpowid is
\* returned; a rejected command and a response without txpowid throw, and
\* registerDapp throws what sendCustomTransaction throws.
SendOutcome(response) == IF response = "txpowid" THEN "fulfilled" ELSE "rejected"

\* The coin a transaction puts on the ledger: one state entry for the port
\* of the command's state, holding the text given for it.
NewCoinId == 1000 + Len(coins)
CoinOfSend(command) ==
  StateCoin(NewCoinId, <<PortEntry("0", JSON_parse(command.state).fields["0"])>>)

\* The ledgers a publisher starts on: an empty one, and one with a profile
\* and a dapp registration.
PublishLedgers ==
  {<<>>,
   <<ProfileCoin(Alice.address, Alice.username, 100, 1),
     DappCoin(Uid1, Key_Chess, Bob.address, 150, 4)>>}

\* What init() can leave the APIs in: minimaAPI on a node, on the mock or
\* not ready, and blockchainAPI not ready.
ApiStates ==
  {[blockchainAPI |-> TRUE, minimaAPI |-> "mds"],
   [blockchainAPI |-> TRUE, minimaAPI |-> "development"],
   [blockchainAPI |-> TRUE, minimaAPI |-> "notReady"],
   [blockchainAPI |-> FALSE, minimaAPI |-> "mds"]}

\* The application after init(): the profiles of the chain are stored, the
\* listing is empty (loadInitialData has failed), the handler listens. The
\* APIs may or may not have become ready; the node holds any balance.
PublishInit ==
  /\ now = Now0
  /\ cachedStores = EmptyMap
  /\ lastFetchTime = EmptyMap
  /\ pc = "idle"
  /\ profiles = <<>>
  /\ pipes = <<>>
  /\ allDapps = <<>>
  /\ successCount = 0
  /\ failCount = 0
  /\ parsed = NoCall
  /\ coins \in PublishLedgers
  /\ appPc = "listening"
  /\ appDapps = <<>>
  /\ appProfiles = StoreProfiles(EmptyMap, queryProfiles(coins))
  /\ message = [kind |-> "none"]
  /\ handlerStatus = "none"
  /\ dispatched = 0
  /\ queried = NoCall
  /\ apis \in ApiStates
  /\ balance \in 0..MaxBalance
  /\ commands = <<>>
  /\ publish = NoPublish
  /\ listener = "minidev"
  /\ inbound = [kind |-> "none", calls |-> 0]
  /\ download = NoDownload
  /\ boot = Booted(apis.minimaAPI)

\* publishDapp is between two statements that run without a break (the
\* entry has been listed and registerDapp not yet called, or registerDapp
\* has settled and broadcastNewDapp is not yet called): no other callback
\* runs then.
Yielded == publish.pc \notin {"listed", "registered"}

\* publishDapp, lines 637-654: with a required field missing, an error toast
\* and return; otherwise the info toast and the upload to IPFS.
PublishDapp ==
  /\ publish.pc \in {"idle", "done"}
  /\ publish.run < MaxPublishes
  /\ \E filled \in BOOLEAN :
       publish' = [NoPublish EXCEPT !.run = publish.run + 1,
                                    !.pc = IF filled THEN "uploading" ELSE "done",
                                    !.toast = IF filled THEN "info" ELSE "error"]
  /\ UNCHANGED <<now, aggregatorVars, parsed, appVars, queried, apis, balance,
                 commands, listener, inbound,
                 download, boot>>

\* The icon URL of the form: none, or "a.png".
Icons == {<<>>, <<97, 46, 112, 110, 103>>}

\* publishDapp, lines 654-675: a failed upload goes to the outer catch (an
\* error toast); otherwise dappData is built and put first in this.dapps.
AddToListing ==
  /\ publish.pc = "uploading"
  /\ \E uploaded \in BOOLEAN, uid \in Uids, icon \in Icons :
       IF uploaded
       THEN LET dappData ==
                  [uid |-> uid, name |-> IF uid = Uid1 THEN Key_Chess ELSE Key_Aa,
                   description |-> Str_NoDescription, version |-> Str_DefaultVersion,
                   category |-> Str_Utility, icon |-> OrElse(icon, null),
                   ipfs_hash |-> <<81, 109>>, developer_address |-> UserAddress,
                   timestamp |-> now]
            IN  /\ publish' = MapSet([publish EXCEPT !.pc = "listed"],
                                     "dappData", dappData)
                /\ appDapps' = <<dappData>> \o appDapps
       ELSE /\ publish' = [publish EXCEPT !.pc = "done", !.toast = "error"]
            /\ appDapps' = appDapps
  /\ UNCHANGED <<now, aggregatorVars, parsed, coins, appPc, appProfiles, message,
                 handlerStatus, dispatched, queried, apis, balance, commands,
                 listener, inbound,
                 download, boot>>

\* publishDapp, line 680: registerDapp(dappData, developerAddress). With
\* blockchainAPI not ready it throws at once. Otherwise sendCustomTransaction
\* runs: with minimaAPI ready (after init() if need be) it gives its one
\* command to _mdsCommand, which hands it to the node or, in development
\* mode, to the mock; with minimaAPI still not ready nothing is handed over.
RegisterDapp ==
  /\ publish.pc = "listed"
  /\ IF apis.blockchainAPI
     THEN /\ publish' = [publish EXCEPT
                           !.pc = "registering",
                           !.registration = "pending",
                           !.registerCalls = @ + 1,
                           !.sends = IF apis.minimaAPI = "notReady" THEN @ ELSE @ + 1]
          /\ commands' =
               IF apis.minimaAPI = "notReady" THEN commands
               ELSE Append(commands,
                           SendCommand(TransactionData(publish.dappData,
                                         publish.dappData.developer_address, now)))
     ELSE /\ publish' = [publish EXCEPT !.pc = "registered",
                                        !.registration = "rejected",
                                        !.reason = "Blockchain API not ready",
                                        !.registerCalls = @ + 1]
          /\ commands' = commands
  /\ UNCHANGED <<now, aggregatorVars, parsed, appVars, queried, apis, balance,
                 listener, inbound,
                 download, boot>>

\* What the pending sendCustomTransaction gets: with minimaAPI not ready,
\* the rejection 'API not initialized'; otherwise a response to its command,
\* the last send command handed over.
PendingSend ==
  commands[CHOOSE k \in DOMAIN commands :
             /\ commands[k].cmd = "send"
             /\ \A j \in DOMAIN commands : commands[j].cmd = "send" => j <= k]

PendingResponses ==
  IF apis.minimaAPI = "notReady" THEN {"notInitialized"}
  ELSE SendResponses(PendingSend)

\* As RegisterSettles, handing the command over once more after a first
\* failure.
RegisterSettlesRetrying ==
  /\ publish.pc = "registering"
  /\ publish.registration = "pending"
  /\ \E response \in PendingResponses :
       /\ publish' =
            IF SendOutcome(response) = "fulfilled"
            THEN MapSet([publish EXCEPT !.pc = "registered",
                                        !.registration = "fulfilled"],
                        "txId", NewCoinId)
            ELSE IF publish.sends = 1
            THEN [publish EXCEPT !.sends = @ + 1]
            ELSE [publish EXCEPT !.pc = "registered",
                                 !.registration = "rejected",
                                 !.reason = response]
       /\ commands' =
            IF SendOutcome(response) # "fulfilled" /\ publish.sends = 1
            THEN Append(commands, PendingSend)
            ELSE commands
       /\ IF response = "txpowid"
          THEN /\ balance' = balance - Hundredths(PendingSend.amount)
               /\ coins' = Append(coins, CoinOfSend(PendingSend))
          ELSE UNCHANGED <<balance, coins>>
  /\ UNCHANGED <<now, aggregatorVars, parsed, appPc, appDapps, appProfiles,
                 message, handlerStatus, dispatched, queried, apis,
                 listener, inbound,
                 download, boot>>

\* registerDapp settles (minimaAPI.js lines 268-279, marketplace.js lines
\* 425-433) and publishDapp goes on (app.js lines 680-684): the transaction
\* id is logged, or the error is caught and logged as non-critical. A
\* transaction the node has made takes its amount from the balance and puts
\* its coin on the ledger.
RegisterSettles ==
  /\ publish.pc = "registering"
  /\ publish.registration = "pending"
  /\ \E response \in PendingResponses :
       /\ publish' =
            IF SendOutcome(response) = "fulfilled"
            THEN MapSet([publish EXCEPT !.pc = "registered",
                                        !.registration = "fulfilled"],
                        "txId", NewCoinId)
            ELSE [publish EXCEPT !.pc = "registered",
                                 !.registration = "rejected",
                                 !.reason = response]
       /\ IF response = "txpowid"
          THEN /\ balance' = balance - Hundredths(PendingSend.amount)
               /\ coins' = Append(coins, CoinOfSend(PendingSend))
          ELSE UNCHANGED <<balance, coins>>
  /\ UNCHANGED <<now, aggregatorVars, parsed, appPc, appDapps, appProfiles,
                 message, handlerStatus, dispatched, queried, apis, commands,
                 listener, inbound,
                 download, boot>>

\* As BroadcastNewDapp, only after a registration that succeeded.
BroadcastNewDappIfRegistered ==
  /\ publish.pc = "registered"
  /\ publish.registration = "fulfilled"
  /\ publish' = [publish EXCEPT !.pc = "broadcasting", !.broadcast = "pending"]
  /\ commands' = Append(commands, MaximaSend(NewDappMessage(publish.dappData, now)))
  /\ UNCHANGED <<now, aggregatorVars, parsed, appVars, queried, apis, balance,
                 listener, inbound,
                 download, boot>>

\* publishDapp, line 689: broadcastNewDapp(dappData) gives its command to
\* the node.
BroadcastNewDapp ==
  /\ publish.pc = "registered"
  /\ publish' = [publish EXCEPT !.pc = "broadcasting", !.broadcast = "pending"]
  /\ commands' = Append(commands, MaximaSend(NewDappMessage(publish.dappData, now)))
  /\ UNCHANGED <<now, aggregatorVars, parsed, appVars, queried, apis, balance,
                 listener, inbound,
                 download, boot>>

\* publishDapp, lines 690-695: whatever became of the registration and of the
\* broadcast, the toast is 'Dapp published successfully!'.
PublishEnds == "success"

\* The broadcast settles (a failure is caught and logged as non-critical)
\* and publishDapp ends.
BroadcastSettles ==
  /\ publish.pc = "broadcasting"
  /\ \E sent \in BOOLEAN :
       publish' = [publish EXCEPT !.pc = "done",
                                  !.broadcast = IF sent THEN "fulfilled" ELSE "rejected",
                                  !.toast = PublishEnds]
  /\ UNCHANGED <<now, aggregatorVars, parsed, appVars, queried, apis, balance,
                 commands, listener, inbound,
                 download, boot>>

\* The type of the message of a maxima command.
TypeOfSend(command) == command.data.of.value.fields.type

Broadcasts(type) ==
  {k \in DOMAIN commands :
     commands[k].cmd = "maxima" /\ TypeOfSend(commands[k]) = type}

\* broadcastProfileUpdate(profile), as completeProfileCreation and
\* saveProfile call it.
BroadcastProfileUpdate ==
  /\ Yielded
  /\ Cardinality(Broadcasts("minidev_profile_update")) < MaxBroadcasts
  /\ commands' = Append(commands, MaximaSend(ProfileUpdateMessage(Alice, now)))
  /\ UNCHANGED <<now, aggregatorVars, parsed, appVars, queried, apis, balance,
                 publish, listener, inbound,
                 download, boot>>

\* broadcastDownload(dappUid, downloaderAddress), as downloadDapp calls it.
BroadcastDownload ==
  /\ Yielded
  /\ Cardinality(Broadcasts("minidev_download")) < MaxBroadcasts
  /\ \E dappUid \in Uids :
       commands' = Append(commands,
                          MaximaSend(DownloadMessage(dappUid, UserAddress, now)))
  /\ UNCHANGED <<now, aggregatorVars, parsed, appVars, queried, apis, balance,
                 publish, listener, inbound,
                 download, boot>>

\* Texts of peers that send plain JSON, and one that is not JSON.
PeerTexts ==
  {JSON_stringify([type |-> "minidev_new_dapp",
                   dapp |-> BroadcastDapp(Uid2, Key_Aa, Carol.address),
                   timestamp |-> 900]),
   JSON_stringify([type |-> "hello", timestamp |-> 900]),
   NotJson}

\* The texts the messaging layer may hand to the callback: the data of a
\* maxima command that was sent, as sent, or a peer's text.
InboundTexts ==
  {commands[k].data : k \in {j \in DOMAIN commands : commands[j].cmd = "maxima"}}
    \cup PeerTexts

\* The message object a parsed text is for handleMaximaMessage.
MessageOf(value) ==
  IF value.t = "object" THEN [kind |-> "object"] @@ value.fields
  ELSE [kind |-> "null"]

\* The callback of listenForMessages (maximaAPI.js lines 234-239) is called
\* with a message text: JSON.parse(response.response.message) either throws,
\* and the handler is not called, or yields the message the handler is
\* called with once (app.js lines 105-107, 110-123).
Deliver ==
  /\ listener # "none"
  /\ Yielded
  /\ inbound.calls < MaxInbound
  /\ \E text \in InboundTexts :
       IF JSON_parseThrows(text)
       THEN /\ inbound' = [kind |-> "callback", calls |-> inbound.calls + 1,
                           text |-> text, dispatches |-> 0]
            /\ UNCHANGED <<appDapps, appProfiles, message, handlerStatus, dispatched>>
       ELSE LET m == MessageOf(JSON_parse(text))
            IN  /\ inbound' = [kind |-> "callback", calls |-> inbound.calls + 1,
                                text |-> text, dispatches |-> 1]
                /\ message' = m
                /\ handlerStatus' = HandlerStatus(m)
                /\ appDapps' = DappsAfterMessage(m)
                /\ appProfiles' = ProfilesAfterMessage(m)
                /\ dispatched' = dispatched + 1
  /\ UNCHANGED <<now, aggregatorVars, parsed, coins, appPc, queried, apis,
                 balance, commands, publish, listener,
                 download, boot>>

\* Publishing, and clients that read the registry.
PublishNext ==
  \/ PublishDapp
  \/ AddToListing
  \/ RegisterDapp
  \/ RegisterSettles
  \/ BroadcastNewDapp
  \/ BroadcastSettles
  \/ (Yielded /\ CallQueryRegisteredDapps)

PublishSpec == PublishInit /\ [][PublishNext]_vars

\* Publishing on a node with both APIs ready, an empty ledger and a balance,
\* the other broadcasts, and the messaging layer calling the listener.
MaximaInit ==
  /\ PublishInit
  /\ apis = [blockchainAPI |-> TRUE, minimaAPI |-> "mds"]
  /\ coins = <<>>
  /\ balance = MaxBalance

MaximaNext ==
  \/ PublishDapp
  \/ AddToListing
  \/ RegisterDapp
  \/ RegisterSettles
  \/ BroadcastNewDapp
  \/ BroadcastSettles
  \/ BroadcastProfileUpdate
  \/ BroadcastDownload
  \/ Deliver

MaximaSpec == MaximaInit /\ [][MaximaNext]_vars

(***************************************************************************)
(* Properties of publishing.                                               *)
(***************************************************************************)
\* The send commands handed over so far.
Sends(cs) == {k \in DOMAIN cs : cs[k].cmd = "send"}

\* The state object a send command embeds on port 0.
EmbeddedState(command) == JSON_parse(JSON_parse(command.state).fields["0"])

\* C24: a step that hands over a send command hands over exactly one
\* command; its amount is "0.01", its address the treasury address, and the
\* state it embeds is tagged minidev_dapp_registration and carries the uid,
\* name, version, description, category and ipfs_hash of the draft and the
\* publisher address registerDapp was given; a coin reaches the ledger only
\* in answer to such a command, with that state on port 0.
C24_RegistrationCommand ==
  /\ [][\A k \in Sends(commands') \ Sends(commands) :
          /\ Len(commands') = Len(commands) + 1
          /\ commands'[k].amount = <<48, 46, 48, 49>>
          /\ commands'[k].address =
               "MxG086AUGQMWM6S47P6GWR2U1AV3391EPR5Q53N7DN9MGNMMN6BMH270SV8QRSC"
          /\ LET state == EmbeddedState(commands'[k])
                 draft == publish.dappData
             IN  /\ state.t = "object"
                 /\ Member(state, "type") = "minidev_dapp_registration"
                 /\ Member(state, "dapp_uid") = draft.uid
                 /\ Member(state, "name") = draft.name
                 /\ Member(state, "version") = draft.version
                 /\ Member(state, "description") = draft.description
                 /\ Member(state, "category") = draft.category
                 /\ Member(state, "ipfs_hash") = draft.ipfs_hash
                 /\ Member(state, "developer_address") = draft.developer_address]_vars
  /\ [][coins' # coins
          => /\ Sends(commands) # {}
             /\ Len(coins') = Len(coins) + 1
             /\ JSON_parse(coins'[Len(coins')].state[1].data) =
                  EmbeddedState(PendingSend)]_vars

\* A registration has reached the ledger: its command was handed over and
\* its coin is the last one.
C24_Witness ==
  /\ publish.registration = "fulfilled"
  /\ Sends(commands) # {}
  /\ coins # <<>>
  /\ coins[Len(coins)].coinid = publish.txId
  /\ TaggedRegistration(coins[Len(coins)])

C26_NoRetry ==
  /\ [](publish.registerCalls <= 1 /\ publish.sends <= publish.registerCalls)
  /\ [](Cardinality(Sends(commands)) <= publish.run)
  /\ [][Sends(commands') # Sends(commands)
          => /\ Cardinality(Sends(commands')) = Cardinality(Sends(commands)) + 1
             /\ publish'.registerCalls = publish.registerCalls + 1]_vars

\* A run has ended whose registration failed after its one command.
C26_Witness ==
  /\ publish.pc = "done"
  /\ publish.registration = "rejected"
  /\ publish.reason \in {"statusFalse", "noTxpowid"}
  /\ publish.sends = 1
  /\ Cardinality(Sends(commands)) = 1

\* C27 as stated: a publish run whose registration failed ends with the
\* error toast, never with the success toast.
C27_FailureSurfaced ==
  [][(publish.pc # "done" /\ publish'.pc = "done"
        /\ publish.registration = "rejected")
       => publish'.toast = "error"]_vars

\* The new_dapp broadcasts handed over so far.
NewDappSends(cs) ==
  {k \in DOMAIN cs : cs[k].cmd = "maxima"
                       /\ cs[k].data.of.value.fields.type = "minidev_new_dapp"}

\* C28: in a publishDapp run past validation and upload, the entry is put at
\* the front of the listing before anything is sent; registerDapp is called
\* only with the entry at the front and no broadcast attempted; the new_dapp
\* broadcast is handed over only once the registration has settled, and can
\* be handed over whether it was fulfilled or rejected; a step in which the
\* registration or the broadcast fails leaves the listing, the ledger and
\* the balance as they were, and the entry stays in the listing.
C28_PublishStepOrder ==
  /\ [][(publish.pc = "uploading" /\ publish'.pc = "listed")
          => /\ appDapps' = <<publish'.dappData>> \o appDapps
             /\ commands' = commands
             /\ publish'.registration = "none"
             /\ publish'.broadcast = "none"]_vars
  /\ [][publish'.registerCalls > publish.registerCalls
          => /\ publish.pc = "listed"
             /\ appDapps # <<>>
             /\ appDapps[1] = publish.dappData
             /\ publish.broadcast = "none"
             /\ NewDappSends(commands') = NewDappSends(commands)]_vars
  /\ [][NewDappSends(commands') # NewDappSends(commands)
          => /\ publish.pc = "registered"
             /\ publish.registration \in {"fulfilled", "rejected"}
             /\ publish'.registration = publish.registration]_vars
  /\ [](publish.pc = "registered" => ENABLED BroadcastNewDapp)
  /\ [][(\/ publish'.registration = "rejected" /\ publish.registration # "rejected"
         \/ publish'.broadcast = "rejected" /\ publish.broadcast # "rejected")
          => /\ appDapps' = appDapps
             /\ coins' = coins
             /\ balance' = balance
             /\ publish'.registration \in {publish.registration, "rejected"}]_vars
  /\ []("dappData" \in DOMAIN publish
          => \E k \in DOMAIN appDapps : appDapps[k] = publish.dappData)

\* A run has ended in which the registration failed and the broadcast was
\* sent all the same, the entry still at the front of the listing.
C28_Witness ==
  /\ publish.pc = "done"
  /\ publish.registration = "rejected"
  /\ publish.broadcast = "fulfilled"
  /\ NewDappSends(commands) # {}
  /\ appDapps # <<>>
  /\ appDapps[1] = publish.dappData

\* The entry of a result of queryRegisteredDapps agrees with the draft of
\* the current run and names its transaction output.
SameAsDraft(entry) ==
  /\ entry.txId = publish.txId
  /\ entry.uid = publish.dappData.uid
  /\ entry.name = publish.dappData.name
  /\ entry.version = publish.dappData.version
  /\ entry.description = publish.dappData.description
  /\ entry.category = publish.dappData.category
  /\ entry.ipfs_hash = publish.dappData.ipfs_hash
  /\ entry.developer_address = publish.dappData.developer_address

\* The place of the draft's transaction output in the coin set.
DraftCoinAt == CHOOSE k \in DOMAIN coins : coins[k].coinid = publish.txId

\* A client's call of queryRegisteredDapps is answered in this step, the
\* draft's transaction output being part of the coin set.
QueryAfterRegistration ==
  /\ queried' # queried
  /\ queried'.fn = "queryRegisteredDapps"
  /\ queried'.answered
  /\ publish.registration = "fulfilled"
  /\ \E k \in DOMAIN coins : coins[k].coinid = publish.txId

MaximaSends == {k \in DOMAIN commands : commands[k].cmd = "maxima"}

\* C30 as stated: every broadcast is sent under the application the
\* listener subscribes to, and a callback given the data of a broadcast, as
\* sent, calls the handler exactly once with the message that was sent.
C30_BroadcastRoundTrip ==
  /\ [](\A k \in MaximaSends : commands[k].application = listener)
  /\ [][(/\ inbound'.calls = inbound.calls + 1
         /\ \E k \in MaximaSends : commands[k].data = inbound'.text)
          => /\ inbound'.dispatches = 1
             /\ dispatched' = dispatched + 1
             /\ message' = MessageOf(inbound'.text.of.value)]_vars

(***************************************************************************)
(* Further properties of the aggregator: the report, clearing, and calls   *)
(* that overlap.                                                           *)
(***************************************************************************)
\* C31 as stated: what fetchAllStores returns has, next to the entries, a
\* report with one item per source attempted, in source order, telling
\* success or failure, the number of entries of a source that succeeded and
\* the reason of one that failed.
C31_ReportReturned ==
  (pc = "done" /\ pipes # <<>>) =>
    /\ ReturnValue.entries = allDapps
    /\ "report" \in DOMAIN ReturnValue
    /\ Len(ReturnValue.report) = Len(pipes)
    /\ \A i \in DOMAIN pipes :
         IF pipes[i].status = "fulfilled"
         THEN /\ ReturnValue.report[i].success
              /\ ReturnValue.report[i].count = Len(pipes[i].value)
         ELSE /\ ~ReturnValue.report[i].success
              /\ ReturnValue.report[i].reason # "none"

\* The records of every URL but u are the same before and after the step.
OthersKept(u) ==
  \A v \in URLs \ {u} :
    /\ v \in DOMAIN cachedStores <=> v \in DOMAIN cachedStores'
    /\ v \in DOMAIN lastFetchTime <=> v \in DOMAIN lastFetchTime'
    /\ v \in DOMAIN cachedStores => cachedStores'[v] = cachedStores[v]
    /\ v \in DOMAIN lastFetchTime => lastFetchTime'[v] = lastFetchTime[v]

\* A step that removes the entries of a URL removes its fetch time too, and
\* either leaves the records of every other URL as they were or removes
\* all records; a fetchStore call that finds no fetch time of its URL
\* issues a request.
ClearingAndRefetch ==
  /\ [][\A u \in DOMAIN cachedStores \ DOMAIN cachedStores' :
          /\ u \notin DOMAIN lastFetchTime'
          /\ \/ OthersKept(u)
             \/ (cachedStores' = EmptyMap /\ lastFetchTime' = EmptyMap)]_vars
  /\ [][Called =>
          \A i \in DOMAIN pipes' :
            pipes'[i].lastFetch = undefinedNum
              => (pipes'[i].requested /\ pipes'[i].status = "pending")]_vars

\* C32 as stated: clearCache(url) removes the entries and the fetch time of
\* that URL only, clearCache() removes all records, and a fetchStore call
\* that found no record of its URL issues a request and raises when that
\* request fails, instead of serving a fallback.
C32_ClearThenRaise ==
  /\ ClearingAndRefetch
  /\ [][\A i \in DOMAIN pipes :
          (/\ Settles(i)
           /\ pipes[i].lastFetch = undefinedNum
           /\ pipes'[i].response = "error")
          => pipes'[i].status = "rejected"]_vars

\* C34: the URLs with cached entries are the URLs with a fetch time, in
\* every state fetchStore and clearCache calls can lead to in any order.
C34_CacheMapsAgree == DOMAIN cachedStores = DOMAIN lastFetchTime

\* With a request still in flight, one URL has been cleared after a call of
\* this run stored it, and another URL has a record.
C34_Witness ==
  /\ pc = "awaiting"
  /\ \E i, j \in DOMAIN pipes :
       /\ pipes[i].via = "live"
       /\ pipes[j].status = "pending"
       /\ PipeUrl(pipes[i]) \notin DOMAIN cachedStores
  /\ DOMAIN cachedStores # {}
  /\ DOMAIN cachedStores = DOMAIN lastFetchTime

\* C35 as stated: when a call for a URL completes with success after a call
\* for the same URL that started later has done so and stored its record,
\* the cache keeps the entries of the call that started later; and the
\* fetch time recorded for a URL never decreases.
C35_LaterCallWins ==
  /\ [][\A i, j \in DOMAIN pipes :
          (/\ i < j
           /\ PipeUrl(pipes[i]) = PipeUrl(pipes[j])
           /\ Settles(i)
           /\ pipes'[i].via = "live"
           /\ pipes[j].via = "live"
           /\ PipeUrl(pipes[j]) \in DOMAIN cachedStores
           /\ cachedStores[PipeUrl(pipes[j])] = pipes[j].value)
          => cachedStores'[PipeUrl(pipes[j])] = pipes[j].value]_vars
  /\ [][\A u \in DOMAIN lastFetchTime \cap DOMAIN lastFetchTime' :
          lastFetchTime'[u] >= lastFetchTime[u]]_vars

\* The name parseStoreData gives the entry of a catalog key.
NameOf(e) == OrElse(Declared(e, "name"), e.key)

\* The entries are those of a catalog, key after key.
InKeyOrder(entries) ==
  \E doc \in Docs :
    /\ doc.kind = "object"
    /\ Len(entries) = Len(SourceEntries(doc))
    /\ \A k \in DOMAIN entries : entries[k].name = NameOf(SourceEntries(doc)[k])

\* C36: the pipelines stand in the order of the input profiles that declare
\* a store, and the array fetchAllStores returns holds the entries of the
\* fulfilled ones group after group in that order, each group being the
\* array its pipeline returned, which for a live fetch is in the key order
\* of the catalog, in whatever order the pipelines completed.
C36_InputOrder ==
  /\ [](pc # "idle" =>
          /\ Len(pipes) = Len(SelectSeq(profiles, HasStore))
          /\ \A i \in DOMAIN pipes : pipes[i].profile = SelectSeq(profiles, HasStore)[i])
  /\ [](pc = "done" =>
          \A i, j \in DOMAIN pipes :
            (i < j /\ pipes[i].status = "fulfilled" /\ pipes[j].status = "fulfilled")
              => /\ Offset(i) + Len(pipes[i].value) <= Offset(j)
                 /\ Offset(j) + Len(pipes[j].value) <= Len(allDapps)
                 /\ SubSeq(allDapps, Offset(i) + 1, Offset(i) + Len(pipes[i].value))
                      = pipes[i].value
                 /\ SubSeq(allDapps, Offset(j) + 1, Offset(j) + Len(pipes[j].value))
                      = pipes[j].value)
  /\ [](\A i \in DOMAIN pipes : pipes[i].via = "live" => InKeyOrder(pipes[i].value))

\* A run has returned the entries of its first source before those of its
\* second, the first having completed after the second.
C36_Witness ==
  /\ pc = "done"
  /\ Len(pipes) = 2
  /\ pipes[1].via = "live"
  /\ pipes[2].via = "live"
  /\ Len(pipes[1].value) >= 2
  /\ pipes[2].value # <<>>
  /\ pipes[1].value[1].timestamp > pipes[2].value[1].timestamp
  /\ allDapps = pipes[1].value \o pipes[2].value

\* ---------------------------------------------------------------------
\* Installs and the listing
\* ---------------------------------------------------------------------

\* The step is a call of downloadDapp that changed the listing or its own
\* record (events change `dispatched`, the other steps change neither).
DownloadStep ==
  /\ dispatched' = dispatched
  /\ (appDapps' # appDapps \/ download' # download)

\* The positions of the listing whose entry the step changed.
Changed == {k \in DOMAIN appDapps : appDapps'[k] # appDapps[k]}

\* C39: downloadDapp adds exactly one to the downloads of the entry it
\* targets if and only if the install command answered with status true;
\* with an unknown uid, an entry without a file URL, or an install that
\* failed, no entry changes and broadcastDownload is not called; and a
\* rejected broadcastDownload after a successful install leaves the
\* increment in place.
C39_CounterFollowsInstall ==
  [][DownloadStep =>
       /\ download'.called
       /\ Len(appDapps') = Len(appDapps)
       /\ (download'.install = "statusTrue") <=> (Changed # {})
       /\ \A k \in Changed :
            /\ Changed = {k}
            /\ FindDapp(appDapps[k].uid) = k
            /\ appDapps'[k] =
                 MapSet(appDapps[k], "downloads",
                        (IF DownloadsOf(appDapps[k]) \in {undefinedNum, 0}
                         THEN 0 ELSE DownloadsOf(appDapps[k])) + 1)
       /\ (download'.outcome \in {"notFound", "noFile", "installFailed"})
            => (appDapps' = appDapps /\ download'.broadcast = "none")
       /\ (download'.install = "statusTrue")
            => download'.broadcast \in {"fulfilled", "rejected"}
       /\ (download'.broadcast = "rejected") => Changed # {}]_vars

\* An install succeeded, its broadcast was rejected, and an entry with a
\* file URL carries a count.
C39_Witness ==
  /\ download.called
  /\ download.outcome = "installed"
  /\ download.broadcast = "rejected"
  /\ \E k \in DOMAIN appDapps :
       Truthy(FileOf(appDapps[k])) /\ DownloadsOf(appDapps[k]) \in 1..MaxDownloads

\* The entries of the listing before the step are all in the listing after
\* it, in their order and at its end.
EntriesKept ==
  /\ Len(appDapps') >= Len(appDapps)
  /\ \A k \in DOMAIN appDapps :
       appDapps'[k + Len(appDapps') - Len(appDapps)].uid = appDapps[k].uid

\* C38: the handler of live events is registered only once loadInitialData
\* has finished, so no event is applied to the listing before the
\* assignment of loadInitialData, which therefore discards no entry an
\* event added; and once loadInitialData has finished no step removes an
\* entry from the listing.
C38_EventsAfterBootstrap ==
  /\ [](listener # "none" => appPc = "listening")
  /\ [][listener' # listener => appPc \notin {"constructed", "listening"}]_vars
  /\ [][dispatched' # dispatched => appPc = "listening"]_vars
  /\ [][(appPc = "constructed" /\ appPc' # appPc)
          => (dispatched = 0 /\ EntriesKept)]_vars
  /\ [][appPc # "constructed" => EntriesKept]_vars

\* An event has added an entry after loadInitialData, and an install has
\* been counted on the listing since.
C38_Witness ==
  /\ appPc = "listening"
  /\ dispatched = MaxMessages
  /\ Len(appDapps) >= 1
  /\ download.called
  /\ download.outcome = "installed"

\* C33: when init runs loadInitialData, whose aggregation reads the
\* identity table, the table already holds the profiles of the registry:
\* storing them again would change nothing.
C33_ProfilesBeforeAggregation ==
  [][(appPc = "constructed" /\ appPc' = "loaded")
       => appProfiles = StoreProfiles(appProfiles, queryProfiles(coins))]_vars

\* ---------------------------------------------------------------------
\* MinimaAPI.init
\* ---------------------------------------------------------------------

\* `attempts < 50` (line 57): the checks waitForMDS makes before it gives up.
PollLimit == 50

\* The commands given to minimaAPI in one run.
MaxCmds == 2

\* initializeMDS(resolve): MDS.init is handed the callback; if the call
\* throws, the catch block sets development mode and resolves.
InitializeMDS(b, thrown) ==
  [b EXCEPT !.pc = IF thrown THEN "resolved" ELSE "initializing"]

\* waitForMDS with `attempts <= 50`.
PollOnceMore(b, thrown) ==
  LET n == b.attempts + 1
  IN  IF b.mds = "ready"
      THEN InitializeMDS([b EXCEPT !.attempts = n], thrown)
      ELSE IF n <= PollLimit
           THEN [b EXCEPT !.attempts = n, !.pc = "polling"]
           ELSE [b EXCEPT !.attempts = n, !.pc = "resolved"]

\* One call of waitForMDS (lines 53-103): attempts++, then initializeMDS if
\* MDS is there with an init function, a timer of 200 ms while
\* attempts < 50, and otherwise development mode and resolve().
Poll(b, thrown) ==
  LET n == b.attempts + 1
  IN  IF b.mds = "ready"
      THEN InitializeMDS([b EXCEPT !.attempts = n], thrown)
      ELSE IF n < PollLimit
           THEN [b EXCEPT !.attempts = n, !.pc = "polling"]
           ELSE [b EXCEPT !.attempts = n, !.pc = "resolved"]

\* Before the callback of MDS.init has run, init resolves only on the
\* paths that set isReady = true and developmentMode = true.
ModeAfter(b) ==
  IF b.pc = "resolved" THEN [apis EXCEPT !.minimaAPI = "development"] ELSE apis

\* A page that has constructed minimaAPI, in or outside the Minima
\* environment, with the MDS script loaded or not.
BootInit ==
  /\ now = Now0
  /\ cachedStores = EmptyMap
  /\ lastFetchTime = EmptyMap
  /\ pc = "idle"
  /\ profiles = <<>>
  /\ pipes = <<>>
  /\ allDapps = <<>>
  /\ successCount = 0
  /\ failCount = 0
  /\ parsed = NoCall
  /\ AppConstructed
  /\ coins = <<>>
  /\ queried = NoCall
  /\ apis = [blockchainAPI |-> FALSE, minimaAPI |-> "notReady"]
  /\ balance = 0
  /\ commands = <<>>
  /\ publish = NoPublish
  /\ listener = "none"
  /\ inbound = [kind |-> "none", calls |-> 0]
  /\ download = NoDownload
  /\ boot \in {Constructed(environment, mds) :
                 environment \in BOOLEAN, mds \in {"undefined", "noInit", "ready"}}

\* init(), up to its first timer or callback: without MDS it calls
\* waitForMDS in the Minima environment and resolves in development mode
\* elsewhere (lines 44-115); an MDS without init resolves in development
\* mode (lines 118-123); a usable MDS is initialized (line 127).
MinimaInit ==
  /\ boot.pc = "new"
  /\ \E thrown \in BOOLEAN :
       boot' = CASE boot.mds = "undefined" /\ boot.environment -> Poll(boot, thrown)
                 [] boot.mds = "ready" -> InitializeMDS(boot, thrown)
                 [] OTHER -> [boot EXCEPT !.pc = "resolved"]
  /\ apis' = ModeAfter(boot')
  /\ UNCHANGED <<now, aggregatorVars, parsed, appVars, queried, balance, commands,
                 publish, listener, inbound, download>>

\* The timer of line 61 fires: waitForMDS runs again.
WaitForMDS ==
  /\ boot.pc = "polling"
  /\ \E thrown \in BOOLEAN : boot' = Poll(boot, thrown)
  /\ apis' = ModeAfter(boot')
  /\ UNCHANGED <<now, aggregatorVars, parsed, appVars, queried, balance, commands,
                 publish, listener, inbound, download>>

\* The MDS script finishes loading between two tasks of the page.
MdsLoads ==
  /\ boot.mds = "undefined"
  /\ \E mds \in {"noInit", "ready"} : boot' = [boot EXCEPT !.mds = mds]
  /\ UNCHANGED <<now, aggregatorVars, parsed, appVars, queried, apis, balance,
                 commands, publish, listener, inbound, download>>

\* The callback handed to MDS.init (lines 140-160): `inited` sets isReady,
\* clears developmentMode and resolves; MDS_SHUTDOWN clears isReady; the
\* other events are logged.
MdsEvent ==
  /\ \/ boot.pc = "initializing"
     \/ boot.pc = "resolved" /\ apis.minimaAPI # "development"
  /\ \E event \in {"inited", "MDS_PENDING", "MDS_SHUTDOWN"} :
       /\ boot' = IF event = "inited" THEN [boot EXCEPT !.pc = "resolved"] ELSE boot
       /\ apis' = CASE event = "inited" -> [apis EXCEPT !.minimaAPI = "mds"]
                    [] event = "MDS_SHUTDOWN" -> [apis EXCEPT !.minimaAPI = "notReady"]
                    [] OTHER -> apis
  /\ UNCHANGED <<now, aggregatorVars, parsed, appVars, queried, balance, commands,
                 publish, listener, inbound, download>>

\* _mdsCommand(command), lines 730-770: rejected while isReady is false,
\* answered by _mockCommandResponse in development mode, and otherwise
\* handed to MDS.cmd.
MinimaCmd ==
  /\ boot.cmds < MaxCmds
  /\ boot' = [boot EXCEPT
               !.cmds = @ + 1,
               !.route = CASE apis.minimaAPI = "notReady" -> "rejected"
                           [] apis.minimaAPI = "development" -> "mock"
                           [] OTHER -> "node"]
  /\ UNCHANGED <<now, aggregatorVars, parsed, appVars, queried, apis, balance,
                 commands, publish, listener, inbound, download>>

BootNext ==
  \/ MinimaInit
  \/ WaitForMDS
  \/ MdsLoads
  \/ MdsEvent
  \/ MinimaCmd

\* A timer set with setTimeout fires: waitForMDS is not postponed forever.
BootSpec == BootInit /\ [][BootNext]_vars /\ WF_vars(WaitForMDS)

\* C40: with MDS undefined, init makes at most 50 checks in the Minima
\* environment and none elsewhere, and, MDS never appearing, it resolves,
\* with isReady and developmentMode true; from then on every command is
\* answered by the mock and none is handed to a node.
C40_InitEndsInDevelopmentMode ==
  /\ [](boot.attempts <= PollLimit)
  /\ [](~boot.environment => boot.attempts = 0)
  /\ [][(boot.pc # "resolved" /\ boot'.pc = "resolved" /\ boot'.mds = "undefined")
          => /\ apis'.minimaAPI = "development"
             /\ boot'.attempts = IF boot.environment THEN PollLimit ELSE 0]_vars
  /\ [][apis.minimaAPI = "development"
          => /\ apis'.minimaAPI = "development"
             /\ boot'.cmds # boot.cmds => boot'.route = "mock"]_vars
  /\ (boot.pc = "polling") ~> (boot.pc = "resolved" \/ boot.mds # "undefined")

\* In the Minima environment MDS never appeared, init gave up after its
\* last check, and a command has been answered since.
C40_Witness ==
  /\ boot.environment
  /\ boot.mds = "undefined"
  /\ boot.pc = "resolved"
  /\ boot.attempts = PollLimit
  /\ boot.cmds = MaxCmds
  /\ boot.route = "mock"

====
